---- MODULE Spec2Model ----
(***************************************************************************)
(* Model of the sequence interpreter of teststand_like                     *)
(* (core/test_engine.py, core/step_model.py, core/test_loader.py).         *)
(*                                                                         *)
(* Encoding conventions                                                    *)
(*  - indices are 0-based as in the Python code; the step at index i is    *)
(*    steps[i + 1];                                                        *)
(*  - a Python str is a sequence of one-character strings ("text"); names  *)
(*    used as dictionary keys are TLA+ strings obtained with Join;         *)
(*  - a Python value is a record [t, n, s]: t is the type tag, n the       *)
(*    number of an int (0/1 for a bool), s the text of a str;              *)
(*  - a dict is a function from key names to values;                       *)
(*  - `max_actions` is the pair (bounded, max_actions): bounded = FALSE    *)
(*    stands for max_actions = None.                                       *)
(***************************************************************************)
EXTENDS Integers, Sequences, FiniteSets, TLC

\* ------------------------------------------------------------------ bounds
MaxLen == 4
MaxWFLen == 5
MaxAtEnd == 2
MaxFaults == 2
MaxText == 8
MaxCallLen == 3
MaxExprLen == 5
MaxGuiLen == 2
MaxBudget == 2

\* ------------------------------------------------------------------ values
NoneV == [t |-> "none", n |-> 0, s |-> <<>>, d |-> <<>>]
BoolV(b) == [t |-> "bool", n |-> IF b THEN 1 ELSE 0, s |-> <<>>, d |-> <<>>]
IntV(k) == [t |-> "int", n |-> k, s |-> <<>>, d |-> <<>>]
StrV(txt) == [t |-> "str", n |-> 0, s |-> txt, d |-> <<>>]
\* an int above sys.maxsize, kept by its decimal digits
LongV(txt) == [t |-> "long", n |-> 0, s |-> txt, d |-> <<>>]
\* a dict with str keys, kept as the function d from its keys to its values
DictV(m) == [t |-> "dict", n |-> 0, s |-> <<>>, d |-> m]

EmptyDict == [k \in {} |-> NoneV]

\* d[k] = v on a copy of d
DictSet(d, k, v) == [x \in (DOMAIN d) \cup {k} |-> IF x = k THEN v ELSE d[x]]

\* d.update(e)
DictUpdate(d, e) == [x \in (DOMAIN d) \cup (DOMAIN e) |-> IF x \in DOMAIN e THEN e[x] ELSE d[x]]

Digits == <<"0", "1", "2", "3", "4", "5", "6", "7", "8", "9">>
DigitChars == {Digits[k] : k \in 1..10}
Letters == {"a", "b", "c", "d", "e", "f", "i", "j", "k", "l", "m", "n", "o", "r", "s", "t", "u", "v", "x", "y", "F", "N", "T", "_"}
Keywords == {"if", "for", "in", "is", "or", "and", "not", "def", "del", "try", "as", "else", "elif", "from", "True", "False", "None"}

DigitVal(c) == CHOOSE k \in 0..9 : Digits[k + 1] = c

RECURSIVE Join(_)
Join(txt) == IF txt = <<>> THEN "" ELSE Head(txt) \o Join(Tail(txt))

IsDigits(txt) == txt # <<>> /\ \A k \in 1..Len(txt) : txt[k] \in DigitChars

RECURSIVE DigitsToInt(_, _)
DigitsToInt(txt, acc) ==
  IF txt = <<>> THEN acc ELSE DigitsToInt(Tail(txt), 10 * acc + DigitVal(Head(txt)))

RECURSIVE IntToDigits(_)
IntToDigits(k) ==
  IF k < 10 THEN <<Digits[k + 1]>> ELSE IntToDigits(k \div 10) \o <<Digits[(k % 10) + 1]>>

\* str(value)
PyStr(v) ==
  CASE v.t = "none" -> <<"N", "o", "n", "e">>
    [] v.t = "bool" -> IF v.n = 1 THEN <<"T", "r", "u", "e">> ELSE <<"F", "a", "l", "s", "e">>
    [] v.t = "int" -> IF v.n < 0 THEN <<"-">> \o IntToDigits(0 - v.n) ELSE IntToDigits(v.n)
    [] v.t = "long" -> v.s
    [] OTHER -> v.s

\* bool(value)
Truthy(v) ==
  CASE v.t = "none" -> FALSE
    [] v.t = "bool" -> v.n = 1
    [] v.t = "int" -> v.n # 0
    [] v.t = "long" -> TRUE
    [] v.t = "dict" -> DOMAIN v.d # {}
    [] OTHER -> v.s # <<>>

\* ast.literal_eval(text): [ok, val]; ok = FALSE when it raises.  Texts are
\* over letters, digits and the characters of the reference syntax, so the
\* literals that parse are the decimal integers and True / False / None.
IsIntLiteral(txt) ==
  /\ IsDigits(txt)
  /\ (Len(txt) > 1 /\ txt[1] = "0") => \A k \in 1..Len(txt) : txt[k] = "0"

\* sys.maxsize = 2^63 - 1, the largest int that converts to Py_ssize_t
SysMaxsize ==
  <<"9", "2", "2", "3", "3", "7", "2", "0", "3", "6", "8", "5", "4", "7", "7", "5", "8", "0", "7">>

\* a <= b for two digit texts of the same length
RECURSIVE DigitsLeq(_, _)
DigitsLeq(a, b) ==
  IF a = <<>> THEN TRUE
  ELSE IF Head(a) # Head(b) THEN DigitVal(Head(a)) < DigitVal(Head(b))
  ELSE DigitsLeq(Tail(a), Tail(b))

\* the int literal txt is at most sys.maxsize
FitsSsize(txt) ==
  \/ Len(txt) < Len(SysMaxsize)
  \/ Len(txt) = Len(SysMaxsize) /\ DigitsLeq(txt, SysMaxsize)

LiteralEval(txt) ==
  IF IsIntLiteral(txt)
  THEN [ok |-> TRUE, val |-> IF FitsSsize(txt) THEN IntV(DigitsToInt(txt, 0)) ELSE LongV(txt)]
  ELSE IF txt = <<"T", "r", "u", "e">> THEN [ok |-> TRUE, val |-> BoolV(TRUE)]
  ELSE IF txt = <<"F", "a", "l", "s", "e">> THEN [ok |-> TRUE, val |-> BoolV(FALSE)]
  ELSE IF txt = <<"N", "o", "n", "e">> THEN [ok |-> TRUE, val |-> NoneV]
  ELSE [ok |-> FALSE, val |-> NoneV]

IsIdentifier(txt) ==
  /\ txt # <<>>
  /\ txt[1] \in Letters
  /\ \A k \in 1..Len(txt) : txt[k] \in Letters \cup DigitChars
  /\ Join(txt) \notin Keywords

\* TestEngine._safe_eval: literal_eval, else eval with the runtime variables
\* as locals and no builtins, else False.
SafeEval(expr, local_vars) ==
  LET lit == LiteralEval(expr) IN
  IF lit.ok THEN lit.val
  ELSE IF IsIdentifier(expr) /\ Join(expr) \in DOMAIN local_vars THEN local_vars[Join(expr)]
  ELSE BoolV(FALSE)

\* ------------------------------------------------------------------- steps
\* StepObject: type, module, function, control, params (name -> text).  The
\* `outputs` dict of the step at index i is outputs[i + 1].
Param(step, name, default) ==
  IF name \in DOMAIN step.params THEN step.params[name] ELSE default

IsControl(step, ctrl) == step.type = "control" /\ step.control = ctrl

\* TestEngine._find_matching_end
RECURSIVE MatchScan(_, _, _)
MatchScan(st, i, depth) ==
  IF i >= Len(st) THEN -1
  ELSE IF IsControl(st[i + 1], "if") \/ IsControl(st[i + 1], "for") THEN MatchScan(st, i + 1, depth + 1)
  ELSE IF IsControl(st[i + 1], "end") THEN
         IF depth - 1 = 0 THEN i ELSE MatchScan(st, i + 1, depth - 1)
  ELSE MatchScan(st, i + 1, depth)

\* the scan with one depth counter per kind of header: only headers of the
\* kind `ctrl` open a level
RECURSIVE MatchScanOfKind(_, _, _, _)
MatchScanOfKind(st, i, depth, ctrl) ==
  IF i >= Len(st) THEN -1
  ELSE IF IsControl(st[i + 1], ctrl) THEN MatchScanOfKind(st, i + 1, depth + 1, ctrl)
  ELSE IF IsControl(st[i + 1], "end") THEN
         IF depth - 1 = 0 THEN i ELSE MatchScanOfKind(st, i + 1, depth - 1, ctrl)
  ELSE MatchScanOfKind(st, i + 1, depth, ctrl)

FindEndOfSameKind(st, start_index) ==
  IF start_index < Len(st) /\ st[start_index + 1].type = "control"
  THEN MatchScanOfKind(st, start_index, 0, st[start_index + 1].control)
  ELSE MatchScan(st, start_index, 0)
\* the first `end` behind start_index, whatever the nesting (-1: none)
FindFirstEnd(st, start_index) ==
  LET ends == {i \in start_index..(Len(st) - 1) : IsControl(st[i + 1], "end")}
  IN IF ends = {} THEN -1 ELSE CHOOSE i \in ends : \A j \in ends : i <= j
FindMatchingEnd(st, start_index) == MatchScan(st, start_index, 0)

\* -------------------------------------------------------- reference resolver
\* first position q >= p with txt[q] = "}", 0 when there is none
FirstClose(txt, p) ==
  IF \E q \in p..Len(txt) : txt[q] = "}"
  THEN CHOOSE q \in p..Len(txt) : txt[q] = "}" /\ \A r \in p..(q - 1) : txt[r] # "}"
  ELSE 0

\* last position of the maximal run of digits that starts at p (p - 1: none)
DigitRunEnd(txt, p) ==
  CHOOSE e \in (p - 1)..Len(txt) :
    /\ \A r \in p..e : txt[r] \in DigitChars
    /\ (e < Len(txt) => txt[e + 1] \notin DigitChars)

HasPrefix(txt, p, c3) ==
  /\ p + 2 <= Len(txt)
  /\ txt[p] = "$" /\ txt[p + 1] = "{" /\ txt[p + 2] = c3

\* match of \$\{#(\d+):([^}]+)\} at position p: [ok, num, key, last]
StepRefAt(txt, p) ==
  LET d == DigitRunEnd(txt, p + 3)
      q == FirstClose(txt, d + 2)
      ok == /\ HasPrefix(txt, p, "#")
            /\ d >= p + 3
            /\ d + 1 <= Len(txt) /\ txt[d + 1] = ":"
            /\ q > d + 2
  IN IF ok THEN [ok |-> TRUE, num |-> SubSeq(txt, p + 3, d), key |-> SubSeq(txt, d + 2, q - 1), last |-> q]
     ELSE [ok |-> FALSE, num |-> <<>>, key |-> <<>>, last |-> 0]

\* match of \$\{@([^}]+)\} at position p: [ok, name, last]
VarRefAt(txt, p) ==
  LET q == FirstClose(txt, p + 3)
      ok == HasPrefix(txt, p, "@") /\ q > p + 3
  IN IF ok THEN [ok |-> TRUE, name |-> SubSeq(txt, p + 3, q - 1), last |-> q]
     ELSE [ok |-> FALSE, name |-> <<>>, last |-> 0]

\* params[key] looked up before outputs[key]
ReplStepParamsFirst(st, outs, num, key) ==
  LET idx == DigitsToInt(num, 0) - 1
      k == Join(key)
  IN IF 0 <= idx /\ idx < Len(st)
     THEN IF k \in DOMAIN st[idx + 1].params THEN st[idx + 1].params[k]
          ELSE IF k \in DOMAIN outs[idx + 1] THEN PyStr(outs[idx + 1][k])
          ELSE <<>>
     ELSE <<>>
\* repl_step
ReplStep(st, outs, num, key) ==
  LET idx == DigitsToInt(num, 0) - 1
      k == Join(key)
  IN IF 0 <= idx /\ idx < Len(st)
     THEN IF k \in DOMAIN outs[idx + 1] THEN PyStr(outs[idx + 1][k])
          ELSE Param(st[idx + 1], k, <<>>)
     ELSE <<>>

\* repl_var
ReplVar(runtime_vars, name) ==
  IF Join(name) \in DOMAIN runtime_vars THEN PyStr(runtime_vars[Join(name)]) ELSE <<>>

\* re.sub over the step references, scanning from position p
RECURSIVE SubStepRefs(_, _, _, _)
SubStepRefs(st, outs, txt, p) ==
  IF p > Len(txt) THEN <<>>
  ELSE LET m == StepRefAt(txt, p) IN
       IF m.ok THEN ReplStep(st, outs, m.num, m.key) \o SubStepRefs(st, outs, txt, m.last + 1)
       ELSE <<txt[p]>> \o SubStepRefs(st, outs, txt, p + 1)

\* re.sub over the variable references, scanning from position p
RECURSIVE SubVarRefs(_, _, _)
SubVarRefs(runtime_vars, txt, p) ==
  IF p > Len(txt) THEN <<>>
  ELSE LET m == VarRefAt(txt, p) IN
       IF m.ok THEN ReplVar(runtime_vars, m.name) \o SubVarRefs(runtime_vars, txt, m.last + 1)
       ELSE <<txt[p]>> \o SubVarRefs(runtime_vars, txt, p + 1)

\* the substituted text returned as it is
AlwaysText(text3) == StrV(text3)
\* the end of resolve_references: ast.literal_eval(text3), text3 when it raises
LiteralOrText(text3) ==
  LET lit == LiteralEval(text3) IN IF lit.ok THEN lit.val ELSE StrV(text3)

\* TestEngine.resolve_references (its argument is always a str here: params
\* hold texts only)
ResolveReferences(st, outs, txt, runtime_vars) ==
  LiteralOrText(SubVarRefs(runtime_vars, SubStepRefs(st, outs, txt, 1), 1))

\* resolve_references caches what it returns as an output of the first step
ResolveEffectCaching(st, outs, txt, runtime_vars) ==
  [steps |-> st,
   outputs |-> IF st = <<>> THEN outs
               ELSE [outs EXCEPT ![1] = DictSet(@, "cached", ResolveReferences(st, outs, txt, runtime_vars))],
   vars |-> runtime_vars,
   val |-> ResolveReferences(st, outs, txt, runtime_vars)]
\* what a call of resolve_references leaves and returns: it assigns to no
\* step and to no entry of runtime_vars (repl_step and repl_var only read)
ResolveEffect(st, outs, txt, runtime_vars) ==
  [steps |-> st, outputs |-> outs, vars |-> runtime_vars, val |-> ResolveReferences(st, outs, txt, runtime_vars)]

\* ------------------------------------------------------------ callback sink
\* One record per callback, in the order the engine makes them; `at` is the
\* index of the step the engine is at (-1: none):
\*   output  - _output(message): tag names the message, idx / val are the
\*             number and the value the message is formatted with;
\*   watcher - _update_watcher(vars): vars is the snapshot;
\*   status  - _set_status(idx, success): val is the success flag.
\* The log also marks each action where the engine performs it (these
\* records are no callbacks):
\*   action  - tag "if" / "for": the header at `at` is evaluated, val is the
\*             condition or the number of values; tag "break": the break at
\*             `at` is performed; tag "call": func(**args) of the step at
\*             `at` is entered, vars holds the bound arguments.
OutputEv(tag, at, idx, val) ==
  [cb |-> "output", tag |-> tag, at |-> at, idx |-> idx, val |-> val, vars |-> EmptyDict]
WatcherEv(at, runtime_vars) ==
  [cb |-> "watcher", tag |-> "", at |-> at, idx |-> -1, val |-> NoneV, vars |-> runtime_vars]
StatusEv(step_index, success) ==
  [cb |-> "status", tag |-> "", at |-> step_index, idx |-> step_index, val |-> BoolV(success), vars |-> EmptyDict]
ActionEv(kind, at, val, args) ==
  [cb |-> "action", tag |-> kind, at |-> at, idx |-> -1, val |-> val, vars |-> args]
\* the log also marks how func(**args) of the step at `at` ended (no
\* callback): tag "return" with the value returned, "raise" with str(e)
ResultEv(at, raised, val) ==
  [cb |-> "result", tag |-> IF raised THEN "raise" ELSE "return", at |-> at, idx |-> -1, val |-> val,
   vars |-> EmptyDict]

\* ----------------------------------------------------------------- registry
\* TestLoader.test_functions after load_from_directory: the signature of
\* each callable, as inspect.signature reports it.  load_from_directory
\* registers every public callable of every test_*.py file of the test
\* directory; test_user.test_noop stands for a callable of a user's file
\* that takes no argument and returns nothing, test_user.test_map for one
\* that returns a dict:
\*   def test_map(k: int):
\*       if k == 0:
\*           return {"x": k}
\*       return {"y": k}
Registry ==
  (<<"test_cal", "test_add">> :> <<[name |-> "a", ann |-> "int"], [name |-> "b", ann |-> "int"]>>)
  @@ (<<"test_user", "test_noop">> :> <<>>)
  @@ (<<"test_user", "test_map">> :> <<[name |-> "k", ann |-> "int"]>>)

\* TestLoader.get_function: a callable is named by its registry key
GetFunction(module, function) == <<module, function>> \in DOMAIN Registry

\* TestLoader.get_return_names (filled by _parse_return_names: the names in
\* `return <name>` statements and the constant keys of `return {...}`)
GetReturnNames(module, function) ==
  IF <<module, function>> = <<"test_cal", "test_add">> THEN <<"sum">>
  ELSE IF <<module, function>> = <<"test_user", "test_map">> THEN <<"x", "y">>
  ELSE <<>>

\* str(e) of the TypeError that a + b raises (one text per message)
AddErrorText(a, b) ==
  IF a.t = "str" THEN StrV(<<"can only concatenate str (not \"int\") to str">>)
  ELSE StrV(<<"unsupported operand type(s) for +: 'int' and 'str'">>)

\* a + b of Python: [raised, result], result = str(e) when it raises.  Sums
\* with an int above sys.maxsize do not occur: no sequence passes one to a
\* callable.
PyAdd(a, b) ==
  IF a.t \in {"int", "bool"} /\ b.t \in {"int", "bool"} THEN [raised |-> FALSE, result |-> IntV(a.n + b.n)]
  ELSE IF a.t = "str" /\ b.t = "str" THEN [raised |-> FALSE, result |-> StrV(a.s \o b.s)]
  ELSE [raised |-> TRUE, result |-> AddErrorText(a, b)]

\* func(**args): [raised, result], result = str(e) when it raises
CallFunction(module, function, args) ==
  IF <<module, function>> = <<"test_cal", "test_add">> THEN PyAdd(args["a"], args["b"])
  ELSE IF <<module, function>> = <<"test_user", "test_map">>
       THEN [raised |-> FALSE,
             result |-> IF args["k"].t \in {"int", "bool"} /\ args["k"].n = 0
                        THEN DictV("x" :> args["k"]) ELSE DictV("y" :> args["k"])]
  ELSE [raised |-> FALSE, result |-> NoneV]

\* int(resolved): [ok, val]
PyInt(v) ==
  IF v.t \in {"int", "bool"} THEN [ok |-> TRUE, val |-> IntV(v.n)]
  ELSE IF v.t = "long" THEN [ok |-> TRUE, val |-> v]
  ELSE IF v.t = "str" /\ IsDigits(v.s) THEN [ok |-> TRUE, val |-> IntV(DigitsToInt(v.s, 0))]
  ELSE [ok |-> FALSE, val |-> v]

\* the type conversion of one argument: [ok, val]
Coerce(ann, resolved) ==
  IF ann = "int" THEN PyInt(resolved) ELSE [ok |-> TRUE, val |-> resolved]

\* a failed conversion binds 0 in place of the resolved value
BindOneZero(args, log, i, k, param, resolved) ==
  LET c == Coerce(param.ann, resolved)
  IN [args |-> DictSet(args, param.name, IF c.ok THEN c.val ELSE IntV(0)),
      log |-> IF c.ok THEN log ELSE Append(log, OutputEv("coerce_failed", i, k, resolved))]
\* one pass of the argument loop, for the k-th parameter: [args, log]
BindOne(args, log, i, k, param, resolved) ==
  LET c == Coerce(param.ann, resolved)
  IN [args |-> DictSet(args, param.name, c.val),
      log |-> IF c.ok THEN log ELSE Append(log, OutputEv("coerce_failed", i, k, resolved))]

\* the argument loop of a function step, from parameter k on: [args, log]
RECURSIVE BindArgs(_, _, _, _, _, _, _, _)
BindArgs(st, outs, i, sig, k, runtime_vars, args, log) ==
  IF k > Len(sig) THEN [args |-> args, log |-> log]
  ELSE LET raw == Param(st[i + 1], sig[k].name, <<>>)
           b == BindOne(args, log, i, k, sig[k],  ResolveReferences(st, outs, raw, runtime_vars))
       IN BindArgs(st, outs, i, sig, k + 1, runtime_vars, b.args, b.log)

\* step.outputs after the call returned `result`
RECURSIVE MirrorReturn(_, _, _, _)
MirrorReturn(out, preds, k, result) ==
  IF k > Len(preds) THEN out ELSE MirrorReturn(DictSet(out, preds[k], result), preds, k + 1, result)

\* the step's outputs become the result alone: earlier keys are dropped
StoreOutputsAfresh(out, module, function, result) ==
  IF result.t = "dict" THEN result.d
  ELSE MirrorReturn(DictSet(EmptyDict, "return", result), GetReturnNames(module, function), 1, result)
\* isinstance(result, dict): step.outputs.update(result); otherwise
\* outputs['return'] = result and the same under each predicted name
StoreOutputs(out, module, function, result) ==
  IF result.t = "dict" THEN DictUpdate(out, result.d)
  ELSE MirrorReturn(DictSet(out, "return", result), GetReturnNames(module, function), 1, result)

\* success = bool(result)
SuccessIfTruthy(result) == Truthy(result)
\* success = (result is None) or bool(result)
Success(result) == result.t = "none" \/ Truthy(result)

\* the status is reported before the result notice
CallStepStatusFirst(outs, i, runtime_vars, step, b) ==
  LET r == CallFunction(step.module, step.function, b.args)
      log2 == b.log \o <<ActionEv("call", i, NoneV, b.args), ResultEv(i, r.raised, r.result)>>
      success == Success(r.result)
  IN IF r.raised
     THEN [outputs |-> outs,
           log |-> log2 \o <<StatusEv(i, FALSE), OutputEv("error", i, -1, r.result), WatcherEv(i, runtime_vars)>>]
     ELSE [outputs |-> [outs EXCEPT ![i + 1] = StoreOutputs(outs[i + 1], step.module, step.function, r.result)],
           log |-> log2 \o <<StatusEv(i, success), OutputEv(IF success THEN "success" ELSE "failure", i, -1, NoneV),
                             WatcherEv(i, runtime_vars)>>]
\* the call of a function step with its bound arguments b = [args, log],
\* to the last watcher update: [outputs, log]
CallStep(outs, i, runtime_vars, step, b) ==
  LET r == CallFunction(step.module, step.function, b.args)
      log2 == b.log \o <<ActionEv("call", i, NoneV, b.args), ResultEv(i, r.raised, r.result)>>
      success == Success(r.result)
  IN IF r.raised
     THEN [outputs |-> outs,
           log |-> log2 \o <<OutputEv("error", i, -1, r.result), StatusEv(i, FALSE), WatcherEv(i, runtime_vars)>>]
     ELSE [outputs |-> [outs EXCEPT ![i + 1] = StoreOutputs(outs[i + 1], step.module, step.function, r.result)],
           log |-> log2 \o <<OutputEv(IF success THEN "success" ELSE "failure", i, -1, NoneV),
                             StatusEv(i, success), WatcherEv(i, runtime_vars)>>]

\* one function step that is in the registry, from the "invoking" notice
\* to the last watcher update: [outputs, log]
InvokeStep(st, outs, log, i, runtime_vars) ==
  CallStep(outs, i, runtime_vars, st[i + 1],
           BindArgs(st, outs, i, Registry[<<st[i + 1].module, st[i + 1].function>>], 1, runtime_vars, EmptyDict,
                    log \o <<OutputEv("invoking", i, -1, NoneV), WatcherEv(i, runtime_vars)>>))

\* ------------------------------------------------------------ block executor
\* range(n)
Range(n) == [k \in 1..n |-> IntV(k - 1)]

\* the iterator of a `for` header: range() of an int, else list() of what
\* _safe_eval gives ([] when list() raises).  List and tuple values do not
\* occur: no modelled text or callable produces one.
MakeIterator(iterable_val, runtime_vars) ==
  IF iterable_val.t \in {"int", "bool"} THEN Range(iterable_val.n)
  ELSE IF iterable_val.t = "long" THEN <<>>  \* a range whose values are never listed
  ELSE LET e == SafeEval(PyStr(iterable_val), runtime_vars) IN
       IF e.t = "str" THEN [k \in 1..Len(e.s) |-> StrV(<<e.s[k]>>)] ELSE <<>>

\* cond_val if isinstance(cond_val, bool) else _safe_eval(str(cond_val), vars)
CondOf(cond_val, runtime_vars) ==
  IF cond_val.t = "bool" THEN cond_val ELSE SafeEval(PyStr(cond_val), runtime_vars)

\* the condition of an `if` header
CondBool(st, outs, step, runtime_vars) ==
  CondOf(ResolveReferences(st, outs, Param(step, "condition", <<>>), runtime_vars), runtime_vars)

\* iterable_val of a `for` header
ForIterable(st, outs, step, runtime_vars) ==
  ResolveReferences(st, outs, Param(step, "iterable", <<>>), runtime_vars)

\* the iterator of a `for` header
ForIterator(st, outs, step, runtime_vars) ==
  MakeIterator(ForIterable(st, outs, step, runtime_vars), runtime_vars)

\* list(range(iterable_val)) raises OverflowError: the int does not convert
\* to Py_ssize_t
ListOverflows(iterable_val) == iterable_val.t = "long"

\* the name of the loop variable of a `for` header
ForVar(step) == Join(Param(step, "var", <<"_", "l", "o", "o", "p">>))

\* what a call of _run_block yields: a return (next_index, runtime_vars,
\* actions_done), or BreakLoop(actions, runtime_vars) raised (exc), or
\* another exception raised (fault); each with the outputs and the callback
\* log as the call left them
Returned(ni, runtime_vars, actions, outs, log) ==
  [exc |-> FALSE, fault |-> FALSE, ni |-> ni, rv |-> runtime_vars, actions |-> actions,
   outputs |-> outs, log |-> log]
Raised(runtime_vars, actions, outs, log) ==
  [exc |-> TRUE, fault |-> FALSE, ni |-> -1, rv |-> runtime_vars, actions |-> actions,
   outputs |-> outs, log |-> log]
Faulted(runtime_vars, actions, outs, log) ==
  [exc |-> FALSE, fault |-> TRUE, ni |-> -1, rv |-> runtime_vars, actions |-> actions,
   outputs |-> outs, log |-> log]

\* ex.runtime_vars or runtime_vars
OrVars(ex_vars, runtime_vars) == IF DOMAIN ex_vars = {} THEN runtime_vars ELSE ex_vars

\* the budget is never taken as reached
BudgetNeverReached(bounded, max_actions, actions) == FALSE
\* max_actions is not None and actions >= max_actions
BudgetReached(bounded, max_actions, actions) == bounded /\ actions >= max_actions

RECURSIVE RunBlock(_, _, _, _, _, _, _, _, _)
RECURSIVE ForLoop(_, _, _, _, _, _, _, _, _, _, _, _)

\* _run_block at an `if` header whose condition evaluated to cond_bool
RunIf(st, outs, log, i, end_idx, runtime_vars, bounded, max_actions, actions, match, cond_bool) ==
  LET log1 == log \o <<ActionEv("if", i, cond_bool, EmptyDict), OutputEv("if_condition", i, -1, cond_bool),
                      WatcherEv(i, runtime_vars)>>
      a1 == actions + 1
  IN IF BudgetReached(bounded, max_actions, a1) THEN Returned(i + 1, runtime_vars, a1, outs, log1)
     ELSE IF Truthy(cond_bool) THEN
       IF match # -1 /\ match > i THEN
         LET r == RunBlock(st, outs, log1, i + 1, match - 1, runtime_vars, bounded, max_actions - a1, 0)
         IN IF r.exc \/ r.fault THEN r
            ELSE IF BudgetReached(bounded, max_actions, a1 + r.actions)
                 THEN Returned(match + 1, r.rv, a1 + r.actions, r.outputs, r.log)
                 ELSE RunBlock(st, r.outputs, r.log, match + 1, end_idx, r.rv, bounded, max_actions, a1 + r.actions)
       ELSE RunBlock(st, outs, log1, i + 1, end_idx, runtime_vars, bounded, max_actions, a1)
     ELSE RunBlock(st, outs, log1, IF match # -1 THEN match + 1 ELSE i + 1, end_idx,
                   runtime_vars, bounded, max_actions, a1)

\* _run_block at a `for` header whose iterable gave `iterator`; the header
\* raises before its first callback when the notice cannot list the values
RunFor(st, outs, log, i, end_idx, runtime_vars, bounded, max_actions, actions, match, iterator) ==
  IF ListOverflows(ForIterable(st, outs, st[i + 1], runtime_vars)) THEN Faulted(runtime_vars, actions, outs, log)
  ELSE
  LET log1 == log \o <<ActionEv("for", i, IntV(Len(iterator)), EmptyDict),
                      OutputEv("for_over", i, -1, IntV(Len(iterator))), WatcherEv(i, runtime_vars)>>
      a1 == actions + 1
  IN IF BudgetReached(bounded, max_actions, a1) THEN Returned(i + 1, runtime_vars, a1, outs, log1)
     ELSE IF match # -1 /\ match > i THEN
       LET r == ForLoop(st, outs, log1, i, match, iterator, 1, ForVar(st[i + 1]), runtime_vars,
                        bounded, max_actions, a1)
       IN IF r.fault THEN r
          ELSE IF r.exc THEN Returned(match + 1, r.rv, r.actions, r.outputs, r.log)
          ELSE RunBlock(st, r.outputs, r.log, match + 1, end_idx, r.rv, bounded, max_actions, r.actions)
     ELSE RunBlock(st, outs, log1, i + 1, end_idx, runtime_vars, bounded, max_actions, a1)

\* the skip of an unknown function counted as an action
RunSkippedCounted(st, outs, log, i, end_idx, runtime_vars, bounded, max_actions, actions) ==
  IF BudgetReached(bounded, max_actions, actions + 1)
  THEN Returned(i + 1, runtime_vars, actions + 1, outs,
                log \o <<OutputEv("skip_unknown", i, -1, NoneV), WatcherEv(i, runtime_vars)>>)
  ELSE RunBlock(st, outs, log \o <<OutputEv("skip_unknown", i, -1, NoneV), WatcherEv(i, runtime_vars)>>,
                i + 1, end_idx, runtime_vars, bounded, max_actions, actions + 1)
\* the skip of an unknown function reported to the status callback
RunSkippedReported(st, outs, log, i, end_idx, runtime_vars, bounded, max_actions, actions) ==
  RunBlock(st, outs,
           log \o <<OutputEv("skip_unknown", i, -1, NoneV), StatusEv(i, FALSE), WatcherEv(i, runtime_vars)>>,
           i + 1, end_idx, runtime_vars, bounded, max_actions, actions)
\* _run_block at a function step that the registry does not hold
RunSkipped(st, outs, log, i, end_idx, runtime_vars, bounded, max_actions, actions) ==
  RunBlock(st, outs, log \o <<OutputEv("skip_unknown", i, -1, NoneV), WatcherEv(i, runtime_vars)>>,
           i + 1, end_idx, runtime_vars, bounded, max_actions, actions)

\* the exception of the callable leaves _run_block
RunInvokedUncaught(st, i, end_idx, runtime_vars, bounded, max_actions, actions, r) ==
  IF r.log[Len(r.log) - 3].tag = "raise" THEN Faulted(runtime_vars, actions, r.outputs, r.log)
  ELSE IF BudgetReached(bounded, max_actions, actions + 1)
  THEN Returned(i + 1, runtime_vars, actions + 1, r.outputs, r.log)
  ELSE RunBlock(st, r.outputs, r.log, i + 1, end_idx, runtime_vars, bounded, max_actions, actions + 1)
\* _run_block after the function step at i was invoked, r = [outputs, log]
RunInvoked(st, i, end_idx, runtime_vars, bounded, max_actions, actions, r) ==
  IF BudgetReached(bounded, max_actions, actions + 1)
  THEN Returned(i + 1, runtime_vars, actions + 1, r.outputs, r.log)
  ELSE RunBlock(st, r.outputs, r.log, i + 1, end_idx, runtime_vars, bounded, max_actions, actions + 1)

\* TestEngine._run_block, from loop position i with `actions` counted so far
RunBlock(st, outs, log, i, end_idx, runtime_vars, bounded, max_actions, actions) ==
  IF i > end_idx \/ i >= Len(st) THEN Returned(i, runtime_vars, actions, outs, log)
  ELSE
  LET step == st[i + 1] IN
  IF IsControl(step, "if") THEN
    RunIf(st, outs, log, i, end_idx, runtime_vars, bounded, max_actions, actions,
          FindMatchingEnd(st, i), CondBool(st, outs, step, runtime_vars))
  ELSE IF IsControl(step, "for") THEN
    RunFor(st, outs, log, i, end_idx, runtime_vars, bounded, max_actions, actions,
           FindMatchingEnd(st, i), ForIterator(st, outs, step, runtime_vars))
  ELSE IF IsControl(step, "break") THEN
    Raised(runtime_vars, 1, outs,
           log \o <<ActionEv("break", i, NoneV, EmptyDict), OutputEv("BREAK", i, -1, NoneV), WatcherEv(i, runtime_vars)>>)
  ELSE IF IsControl(step, "end") THEN
    RunBlock(st, outs, log, i + 1, end_idx, runtime_vars, bounded, max_actions, actions)
  ELSE IF step.type = "function" THEN
    IF ~GetFunction(step.module, step.function)
    THEN RunSkipped(st, outs, log, i, end_idx, runtime_vars, bounded, max_actions, actions)
    ELSE RunInvoked(st, i, end_idx, runtime_vars, bounded, max_actions, actions,
                    InvokeStep(st, outs, log, i, runtime_vars))
  ELSE RunBlock(st, outs, log, i + 1, end_idx, runtime_vars, bounded, max_actions, actions)

\* the `for val in iterator` loop of a `for` header at i, from the k-th
\* value on.  exc = TRUE stands for the `return (match + 1, ...)` in the
\* except clause; otherwise the loop is over (exhausted or left by `break`)
\* and the block goes on at match + 1.
ForLoop(st, outs, log, i, match, iterator, k, varname, runtime_vars, bounded, max_actions, actions) ==
  IF k > Len(iterator) THEN Returned(match + 1, runtime_vars, actions, outs, log)
  ELSE
  LET new_vars == DictSet(runtime_vars, varname, iterator[k])
      r == RunBlock(st, outs, log, i + 1, match - 1, new_vars, bounded, max_actions - actions, 0)
  IN IF r.fault THEN r
     ELSE IF r.exc
     THEN LET a2 == actions + r.actions
              rv2 == OrVars(r.rv, runtime_vars)
          IN IF BudgetReached(bounded, max_actions, a2) THEN Raised(rv2, a2, r.outputs, r.log)
             ELSE Returned(match + 1, rv2, a2, r.outputs, r.log)
     ELSE ForLoop(st, r.outputs, r.log, i, match, iterator, k + 1, varname, runtime_vars,
                  bounded, max_actions, actions + r.actions)

\* ------------------------------------------------------- step-run machine
\* exec_state is None
None == [index |-> -1, vars |-> EmptyDict, loop_stack |-> <<>>]

FreshState == [index |-> 0, vars |-> EmptyDict, loop_stack |-> <<>>]

\* TestEngine._find_enclosing_loop: the position in loop_stack of the last
\* entry with start < start_idx <= end, 0 for None
FindEnclosingLoop(ls, start_idx) ==
  LET hits == {k \in 1..Len(ls) : ls[k].start < start_idx /\ start_idx <= ls[k].end}
  IN IF hits = {} THEN 0 ELSE CHOOSE k \in hits : \A h \in hits : h <= k

\* the first entry of loop_stack with entry.start = start, 0 for None
ExistingFrame(ls, start) ==
  LET hits == {k \in 1..Len(ls) : ls[k].start = start}
  IN IF hits = {} THEN 0 ELSE CHOOSE k \in hits : \A h \in hits : k <= h

\* list.remove(entry): drops the first element equal to entry
ListRemove(ls, entry) ==
  LET hits == {k \in 1..Len(ls) : ls[k] = entry}
  IN IF hits = {} THEN ls
     ELSE LET f == CHOOSE k \in hits : \A h \in hits : k <= h
          IN SubSeq(ls, 1, f - 1) \o SubSeq(ls, f + 1, Len(ls))

\* the log also marks an exception that leaves the operation (this record
\* is no callback)
RaiseEv(at) == [cb |-> "raise", tag |-> "", at |-> at, idx |-> -1, val |-> NoneV, vars |-> EmptyDict]

\* what step_run leaves: exec_state, the outputs and the log; raised when an
\* exception leaves it
StepResult(es, outs, log) == [es |-> es, outputs |-> outs, log |-> log, raised |-> FALSE]
\* the index is moved past the step before the exception leaves
StepFaultAdvanced(es, outs, log, start) ==
  [es |-> [es EXCEPT !.index = start + 1], outputs |-> outs, log |-> Append(log, RaiseEv(start)), raised |-> TRUE]
StepFault(es, outs, log, start) ==
  [es |-> es, outputs |-> outs, log |-> Append(log, RaiseEv(start)), raised |-> TRUE]

\* step_run at a `for` header (lines 91-130)
StepFor(st, outs, es, start) ==
  LET step == st[start + 1]
      ex == ExistingFrame(es.loop_stack, start)
      match == FindMatchingEnd(st, start)
      varname == ForVar(step)
      iterator == ForIterator(st, outs, step, es.vars)
  IN IF ListOverflows(ForIterable(st, outs, step, es.vars)) THEN StepFault(es, outs, <<>>, start)
     ELSE IF iterator = <<>>
     THEN LET ni == IF match # -1 THEN match + 1 ELSE start + 1
          IN StepResult([es EXCEPT !.index = ni], outs,
                        <<ActionEv("for", start, IntV(0), EmptyDict), OutputEv("step_empty_for", start, ni, NoneV)>>)
     ELSE LET entry == IF ex = 0
                       THEN [start |-> start, end |-> match, iterator |-> iterator, pos |-> 0, var |-> varname]
                       ELSE es.loop_stack[ex]
              ls == IF ex = 0 THEN Append(es.loop_stack, entry) ELSE es.loop_stack
              val == entry.iterator[entry.pos + 1]
          IN StepResult([index |-> start + 1, vars |-> DictSet(es.vars, varname, val), loop_stack |-> ls],
                        outs, <<ActionEv("for", start, IntV(Len(iterator)), EmptyDict),
                                OutputEv("step_enter_for", start, start + 1, val)>>)

\* a false condition moves the index two past the matching `end`
StepIfOvershoots(st, outs, es, start) ==
  LET step == st[start + 1]
      match == FindMatchingEnd(st, start)
      cond_bool == CondBool(st, outs, step, es.vars)
      ni == IF Truthy(cond_bool) THEN start + 1 ELSE match + 2
  IN StepResult([es EXCEPT !.index = ni], outs,
                <<ActionEv("if", start, cond_bool, EmptyDict), OutputEv("if_condition", start, -1, cond_bool),
                  WatcherEv(start, es.vars),
                  OutputEv(IF Truthy(cond_bool) THEN "step_if_true" ELSE "step_if_false", start, ni, NoneV)>>)
\* step_run at an `if` header (lines 133-150)
StepIf(st, outs, es, start) ==
  LET step == st[start + 1]
      match == FindMatchingEnd(st, start)
      cond_bool == CondBool(st, outs, step, es.vars)
      ni == IF Truthy(cond_bool) THEN start + 1
            ELSE IF match # -1 THEN match + 1 ELSE start + 1
  IN StepResult([es EXCEPT !.index = ni], outs,
                <<ActionEv("if", start, cond_bool, EmptyDict), OutputEv("if_condition", start, -1, cond_bool),
                  WatcherEv(start, es.vars),
                  OutputEv(IF Truthy(cond_bool) THEN "step_if_true" ELSE "step_if_false", start, ni, NoneV)>>)

\* step_run at a `break` (lines 153-171)
StepBreak(st, outs, es, start) ==
  LET k == FindEnclosingLoop(es.loop_stack, start) IN
  IF k # 0
  THEN LET enclosing == es.loop_stack[k]
           ni == enclosing.end + 1
       IN StepResult([es EXCEPT !.index = ni, !.loop_stack = ListRemove(es.loop_stack, enclosing)],
                     outs, <<ActionEv("break", start, NoneV, EmptyDict), OutputEv("step_break_in_loop", start, ni, NoneV)>>)
  ELSE StepResult([es EXCEPT !.index = start + 1], outs,
                   <<ActionEv("break", start, NoneV, EmptyDict), OutputEv("step_break_ignored", start, -1, NoneV)>>)

\* step_run inside the range of the loop_stack entry at position k
\* (lines 174-212), r the outcome of its _run_block call
SteppedInLoop(es, start, k, r) ==
  LET enclosing == es.loop_stack[k]
  IN IF r.fault THEN StepFault(es, r.outputs, r.log, start)
     ELSE IF r.exc
     THEN LET ni == enclosing.end + 1
          IN StepResult([index |-> ni, vars |-> OrVars(r.rv, es.vars),
                         loop_stack |-> ListRemove(es.loop_stack, enclosing)],
                        r.outputs, Append(r.log, OutputEv("step_break_in_loop", start, ni, NoneV)))
     ELSE IF r.ni > enclosing.end
          THEN LET moved == [enclosing EXCEPT !.pos = @ + 1]
                   ls == [es.loop_stack EXCEPT ![k] = moved]
               IN IF moved.pos < Len(moved.iterator)
                  THEN LET val == moved.iterator[moved.pos + 1]
                       IN StepResult([index |-> moved.start + 1, vars |-> DictSet(r.rv, moved.var, val),
                                      loop_stack |-> ls],
                                     r.outputs, Append(r.log, OutputEv("step_loop_next", start, moved.start + 1, val)))
                  ELSE StepResult([index |-> moved.end + 1, vars |-> r.rv, loop_stack |-> ListRemove(ls, moved)],
                                  r.outputs, Append(r.log, OutputEv("step_loop_done", start, moved.end + 1, NoneV)))
          ELSE StepResult([index |-> r.ni, vars |-> r.rv, loop_stack |-> es.loop_stack],
                          r.outputs, Append(r.log, OutputEv("step_done", start, r.ni, IntV(r.actions))))

StepInLoop(st, outs, es, start, k) ==
  SteppedInLoop(es, start, k, RunBlock(st, outs, <<>>, start, es.loop_stack[k].end, es.vars, TRUE, 1, 0))

\* step_run outside every active loop (lines 215-224), r the outcome of
\* its _run_block call
SteppedDefault(es, start, r) ==
  LET ni == IF r.exc THEN start + 1 ELSE r.ni
      nv == IF r.exc THEN OrVars(r.rv, es.vars) ELSE r.rv
  IN IF r.fault THEN StepFault(es, r.outputs, r.log, start)
     ELSE StepResult([index |-> ni, vars |-> nv, loop_stack |-> es.loop_stack],
                r.outputs, Append(r.log, OutputEv("step_done", start, ni, IntV(r.actions))))

StepDefault(st, outs, es, start) ==
  SteppedDefault(es, start, RunBlock(st, outs, <<>>, start, Len(st) - 1, es.vars, TRUE, 1, 0))

\* step_run that rewinds to the first step when it reports the end of the sequence
StepRunRewinds(st, outs, es0) ==
  LET es == IF es0 = None THEN FreshState ELSE es0
      start == es.index
  IN IF start > Len(st) - 1 THEN StepResult(FreshState, outs, <<OutputEv("at_end", -1, -1, NoneV)>>)
     ELSE IF IsControl(st[start + 1], "for") THEN StepFor(st, outs, es, start)
     ELSE IF IsControl(st[start + 1], "if") THEN StepIf(st, outs, es, start)
     ELSE IF IsControl(st[start + 1], "break") THEN StepBreak(st, outs, es, start)
     ELSE LET k == FindEnclosingLoop(es.loop_stack, start) IN
          IF k # 0 THEN StepInLoop(st, outs, es, start, k) ELSE StepDefault(st, outs, es, start)

\* TestEngine.step_run: [es, outputs, log]
StepRunResult(st, outs, es0) ==
  LET es == IF es0 = None THEN FreshState ELSE es0
      start == es.index
  IN IF start > Len(st) - 1 THEN StepResult(es, outs, <<OutputEv("at_end", -1, -1, NoneV)>>)
     ELSE IF IsControl(st[start + 1], "for") THEN StepFor(st, outs, es, start)
     ELSE IF IsControl(st[start + 1], "if") THEN StepIf(st, outs, es, start)
     ELSE IF IsControl(st[start + 1], "break") THEN StepBreak(st, outs, es, start)
     ELSE LET k == FindEnclosingLoop(es.loop_stack, start) IN
          IF k # 0 THEN StepInLoop(st, outs, es, start, k) ELSE StepDefault(st, outs, es, start)

\* step.outputs.clear() on every step
\* every step keeps a `return` entry
StaleOutputs(st) == [k \in 1..Len(st) |-> ("return" :> NoneV)]
ClearedOutputs(st) == [k \in 1..Len(st) |-> EmptyDict]

\* TestEngine.run_all: [outputs, log], r the outcome of its _run_block call
RunAllDone(r) ==
  [outputs |-> r.outputs,
   log |-> Append(r.log, OutputEv(IF r.fault THEN "run_error"
                                  ELSE IF r.exc THEN "run_break_ignored" ELSE "run_done", -1, -1, NoneV))]

RunAllResult(st, outs) ==
  RunAllDone(RunBlock(st, outs, <<OutputEv("run_start", -1, -1, NoneV)>>, 0, Len(st) - 1, EmptyDict, FALSE, 0, 0))

\* ---------------------------------------------------------------- sequences
TxtTrue == <<"T", "r", "u", "e">>
TxtFalse == <<"F", "a", "l", "s", "e">>
TxtRefI == <<"$", "{", "@", "i", "}">>

CtlStep(ctrl, params) ==
  [type |-> "control", module |-> "", function |-> "", control |-> ctrl, params |-> params]
FnStep(module, function, params) ==
  [type |-> "function", module |-> module, function |-> function, control |-> "", params |-> params]

IfStep(cond) == CtlStep("if", "condition" :> cond)
ForStep(var, iterable) == CtlStep("for", ("var" :> var) @@ ("iterable" :> iterable))
EndStep == CtlStep("end", <<>>)
BreakStep == CtlStep("break", <<>>)
\* test_add(a = ${@i}, b = 1), the call of the end-to-end scenario
AddStep == FnStep("test_cal", "test_add", ("a" :> TxtRefI) @@ ("b" :> <<"1">>))
\* a step whose function the loader did not find
UnknownStep == FnStep("test_cal", "test_gone", <<>>)

StepKinds ==
  {IfStep(TxtTrue), IfStep(TxtFalse), ForStep(<<"i">>, <<"2">>), ForStep(<<"i">>, <<"0">>),
   EndStep, BreakStep, AddStep, UnknownStep}

\* test_add(a = 0, b = 0): returns 0.  The step also holds a text under the
\* name `sum`, which is no parameter of test_add.
AddZeroStep == FnStep("test_cal", "test_add", ("a" :> <<"0">>) @@ ("b" :> <<"0">>) @@ ("sum" :> <<"7">>))
\* a call of the callable that returns nothing
NoopStep == FnStep("test_user", "test_noop", <<>>)
\* test_add(a = ${#1:sum}, b = ${#2:b}): arguments taken from the first two steps
TxtRefSum == <<"$", "{", "#", "1", ":", "s", "u", "m", "}">>
TxtRefB == <<"$", "{", "#", "2", ":", "b", "}">>
RefStep == FnStep("test_cal", "test_add", ("a" :> TxtRefSum) @@ ("b" :> TxtRefB))

\* test_map(k = ${@i}): returns a dict
MapStep == FnStep("test_user", "test_map", "k" :> TxtRefI)

\* function steps of every outcome, inside and outside a loop
CallKinds == {AddStep, AddZeroStep, NoopStep, RefStep, MapStep, UnknownStep, ForStep(<<"i">>, <<"2">>), EndStep}

\* a condition that is no expression, an iterable that names nothing, and an
\* iterable above sys.maxsize
TxtBadCond == <<"1", "x">>
TxtBadIter == <<"x", "y">>
TxtHuge == <<"1", "0", "0", "0", "0", "0", "0", "0", "0", "0", "0", "0", "0", "0", "0", "0", "0", "0", "0", "0", "0">>

ExprKinds ==
  {IfStep(TxtBadCond), ForStep(<<"i">>, TxtBadIter), ForStep(<<"i">>, TxtHuge),
   IfStep(TxtTrue), ForStep(<<"i">>, <<"2">>), EndStep, AddStep, UnknownStep}

SequencesOver(kinds, maxlen) == UNION {[1..n -> kinds] : n \in 0..maxlen}

IsHeader(step) == IsControl(step, "if") \/ IsControl(step, "for")

\* the number of headers still open after the steps st[1..k]; -1 once an
\* `end` had no header to close
RECURSIVE OpenAfter(_, _)
OpenAfter(st, k) ==
  IF k = 0 THEN 0
  ELSE LET d == OpenAfter(st, k - 1) IN
       IF d = -1 THEN -1
       ELSE IF IsHeader(st[k]) THEN d + 1
       ELSE IF IsControl(st[k], "end") THEN d - 1
       ELSE d

WellFormed(st) == OpenAfter(st, Len(st)) = 0

\* -------------------------------------------------------------------- state
VARIABLES steps, outputs, exec_state, sink, session, last_op, ran, reset_from, run, block_call

vars == <<steps, outputs, exec_state, sink, session, last_op, ran, reset_from, run, block_call>>

\* steps      the sequence given to set_steps, frozen during a session
\* outputs    the `outputs` dict of each step
\* exec_state TestEngine.exec_state
\* sink       the callbacks made by the last operation
\* session    the callbacks made by the step requests since construction
\*            or the last reset
\* last_op    the last operation called
\* ran        run_all was called since construction or the last reset
\* reset_from where the step-run machine was when the resets that ended with
\*            the last operation began, followed by "again" when
\*            reset_execution was called more than once in a row; <<>> after
\*            another operation
\* run        where the run_all that the controller's run_sequence started
\*            stands while one of its callbacks lets the application
\*            process its pending events: pc "idle" when no such run is in
\*            progress, "at" before the step at loop index i, "invoking"
\*            after the invoking notice of the step at i
\* block_call what the last direct call of _run_block was given and what it
\*            returned (NoCall before the first such call)

IdleRun == [pc |-> "idle", i |-> 0]
NoCall == [called |-> FALSE, bounded |-> FALSE, max_actions |-> 0, returned |-> FALSE, ni |-> 0, actions |-> 0]

AtEndReports(log) == Cardinality({k \in 1..Len(log) : log[k].tag = "at_end"})
FaultReports(log) == Cardinality({k \in 1..Len(log) : log[k].cb = "raise"})

\* no text among the outputs is longer than n
TextsWithin(outs, n) == \A k \in 1..Len(outs) : \A key \in DOMAIN outs[k] : Len(outs[k][key].s) <= n

\* where the step-run machine is
MachineAt(st, es) ==
  IF es = None THEN "idle"
  ELSE IF es.index > Len(st) - 1 THEN "finished"
  ELSE IF es.loop_stack # <<>> THEN "in_loop"
  ELSE IF es.index = 0 THEN "ready"
  ELSE "running"

InitOn(sequences) ==
  /\ steps \in sequences
  /\ outputs = ClearedOutputs(steps)
  /\ exec_state = None
  /\ sink = <<>>
  /\ session = <<>>
  /\ last_op = "init"
  /\ ran = FALSE
  /\ reset_from = <<>>
  /\ run = IdleRun
  /\ block_call = NoCall

\* any sequence the editor can compose
Init == InitOn(SequencesOver(StepKinds, MaxLen))

\* the sequences whose blocks are closed: every `if` / `for` has its `end`
\* and every `end` closes a header
InitWF == InitOn({st \in SequencesOver(StepKinds, MaxWFLen) : WellFormed(st)})

\* sequences of function steps and loops
InitCalls == InitOn(SequencesOver(CallKinds, MaxCallLen))

\* closed sequences with conditions and iterables of every kind
InitExprs == InitOn({st \in SequencesOver(ExprKinds, MaxExprLen) : WellFormed(st)})

\* TestEngine.step_run
StepRun ==
  /\ AtEndReports(session) < MaxAtEnd
  /\ FaultReports(session) < MaxFaults
  /\ \E r \in {StepRunResult(steps, outputs, exec_state)} :
       /\ exec_state' = r.es
       /\ outputs' = r.outputs
       /\ sink' = r.log
       /\ session' = session \o r.log
  /\ last_op' = "step_run"
  /\ reset_from' = <<>>
  /\ UNCHANGED <<steps, ran, run, block_call>>

\* TestEngine.reset_execution
ResetExecution ==
  /\ exec_state' = FreshState
  /\ outputs' = ClearedOutputs(steps)
  /\ sink' = <<WatcherEv(-1, EmptyDict), OutputEv("reset", -1, -1, NoneV)>>
  /\ session' = <<>>
  /\ last_op' = "reset_execution"
  /\ ran' = FALSE
  /\ reset_from' = IF last_op = "reset_execution" THEN <<reset_from[1], "again">>
                    ELSE <<MachineAt(steps, exec_state)>>
  /\ UNCHANGED <<steps, run, block_call>>

\* run_all starts from a fresh execution state and leaves it behind
RunAllRewinds ==
  /\ TextsWithin(outputs, MaxText)
  /\ \E r \in {RunAllResult(steps, outputs)} :
       /\ outputs' = r.outputs
       /\ sink' = r.log
  /\ exec_state' = FreshState
  /\ last_op' = "run_all"
  /\ ran' = TRUE
  /\ reset_from' = <<>>
  /\ UNCHANGED <<steps, session, run, block_call>>
\* TestEngine.run_all
RunAll ==
  /\ TextsWithin(outputs, MaxText)
  /\ \E r \in {RunAllResult(steps, outputs)} :
       /\ outputs' = r.outputs
       /\ sink' = r.log
  /\ last_op' = "run_all"
  /\ ran' = TRUE
  /\ reset_from' = <<>>
  /\ UNCHANGED <<steps, exec_state, session, run, block_call>>

Next == StepRun \/ ResetExecution \/ RunAll

Spec == Init /\ [][Next]_vars

SpecWF == InitWF /\ [][Next]_vars

SpecCalls == InitCalls /\ [][Next]_vars

SpecExprs == InitExprs /\ [][Next]_vars

\* a call _run_block(0, len(steps) - 1, {}, max_actions) on the engine, with
\* max_actions = None or a number from 1 to MaxBudget
RunBlockCall ==
  /\ run.pc = "idle"
  /\ \E bounded \in BOOLEAN : \E k \in 1..MaxBudget :
       /\ ~bounded => k = 1
       /\ \E r \in {RunBlock(steps, outputs, <<>>, 0, Len(steps) - 1, EmptyDict, bounded, k, 0)} :
            /\ outputs' = r.outputs
            /\ sink' = r.log
            /\ block_call' = [called |-> TRUE, bounded |-> bounded, max_actions |-> k,
                               returned |-> ~r.exc /\ ~r.fault, ni |-> r.ni, actions |-> r.actions]
  /\ last_op' = "run_block"
  /\ reset_from' = <<>>
  /\ UNCHANGED <<steps, exec_state, session, ran, run>>

NextBlock == RunBlockCall \/ ResetExecution

SpecBlock == Init /\ [][NextBlock]_vars

\* the runtime variables a call of resolve_references is given
ResolveVars == {EmptyDict, "i" :> IntV(1)}

\* a call resolve_references(text, runtime_vars) on the engine, text being
\* the text of a parameter of a step; the sink marks the call (the vars it
\* is given) and its end (the value returned, the vars after it)
ResolveCall ==
  /\ \E k \in 1..Len(steps) : \E name \in DOMAIN steps[k].params : \E rv \in ResolveVars :
       \E r \in {ResolveEffect(steps, outputs, steps[k].params[name], rv)} :
         /\ steps' = r.steps
         /\ outputs' = r.outputs
         /\ sink' = <<[cb |-> "resolve", tag |-> name, at |-> k - 1, idx |-> -1, val |-> NoneV, vars |-> rv],
                      [cb |-> "resolved", tag |-> name, at |-> k - 1, idx |-> -1, val |-> r.val, vars |-> r.vars]>>
  /\ last_op' = "resolve_references"
  /\ reset_from' = <<>>
  /\ UNCHANGED <<exec_state, session, ran, run, block_call>>

NextResolve == ResolveCall \/ RunAll \/ ResetExecution

SpecResolve == InitCalls /\ [][NextResolve]_vars

\* ------------------------------------------------- the run under the window
\* The controller's callbacks (_on_engine_output, _on_engine_watcher_update,
\* _on_engine_status_update) each call QApplication.processEvents(), which
\* dispatches the clicks and edits that are pending, on the same thread,
\* before the callback returns to run_all.  No button is disabled while a
\* run is in progress.  The sequences here hold function steps only, so a
\* run in progress is described by its loop index; a handler dispatched
\* from a callback is taken as a whole.

\* function steps that read each other's params and outputs
GuiKinds == {AddZeroStep, RefStep, UnknownStep}

InitGui == InitOn(SequencesOver(GuiKinds, MaxGuiLen))

\* the texts typed into a parameter field
EditTexts == {<<"0">>}

\* TestController.run_sequence up to the first callback of run_all
RunSequence ==
  /\ run.pc = "idle"
  /\ steps # <<>>
  /\ TextsWithin(outputs, MaxText)
  /\ run' = [pc |-> "at", i |-> 0]
  /\ sink' = <<OutputEv("run_start", -1, -1, NoneV)>>
  /\ last_op' = "run_sequence"
  /\ ran' = TRUE
  /\ reset_from' = <<>>
  /\ UNCHANGED <<steps, outputs, exec_state, session, block_call>>

\* _run_block at a function step the loader knows: the invoking notice and
\* the snapshot after it
RunAnnounce ==
  /\ run.pc = "at" /\ run.i <= Len(steps) - 1
  /\ GetFunction(steps[run.i + 1].module, steps[run.i + 1].function)
  /\ run' = [pc |-> "invoking", i |-> run.i]
  /\ sink' = <<OutputEv("invoking", run.i, -1, NoneV), WatcherEv(run.i, EmptyDict)>>
  /\ last_op' = "run_sequence"
  /\ reset_from' = <<>>
  /\ UNCHANGED <<steps, outputs, exec_state, session, ran, block_call>>

\* _run_block at a function step the loader does not know
RunSkip ==
  /\ run.pc = "at" /\ run.i <= Len(steps) - 1
  /\ ~GetFunction(steps[run.i + 1].module, steps[run.i + 1].function)
  /\ run' = [pc |-> "at", i |-> run.i + 1]
  /\ sink' = <<OutputEv("skip_unknown", run.i, -1, NoneV), WatcherEv(run.i, EmptyDict)>>
  /\ last_op' = "run_sequence"
  /\ reset_from' = <<>>
  /\ UNCHANGED <<steps, outputs, exec_state, session, ran, block_call>>

\* _run_block after the invoking notice: the arguments are bound from the
\* params and outputs as they are now, the callable is called, its result
\* stored and reported
RunInvoke ==
  /\ run.pc = "invoking"
  /\ \E r \in {CallStep(outputs, run.i, EmptyDict, steps[run.i + 1],
                        BindArgs(steps, outputs, run.i,
                                 Registry[<<steps[run.i + 1].module, steps[run.i + 1].function>>],
                                 1, EmptyDict, EmptyDict, <<>>))} :
       /\ outputs' = r.outputs
       /\ sink' = r.log
  /\ run' = [pc |-> "at", i |-> run.i + 1]
  /\ last_op' = "run_sequence"
  /\ reset_from' = <<>>
  /\ UNCHANGED <<steps, exec_state, session, ran, block_call>>

\* _run_block leaves its loop and run_all reports the end of the run
RunFinish ==
  /\ run.pc = "at" /\ run.i > Len(steps) - 1
  /\ run' = IdleRun
  /\ sink' = <<OutputEv("run_done", -1, -1, NoneV)>>
  /\ last_op' = "run_sequence"
  /\ reset_from' = <<>>
  /\ UNCHANGED <<steps, outputs, exec_state, session, ran, block_call>>

\* a click on Run dispatched from a callback of the run in progress: the
\* second run_sequence runs to its end before the callback returns
NestedRun == run.pc # "idle" /\ RunAll

\* ParamEditor._on_param_changed: the text typed for a parameter of a step
ParamEdit ==
  /\ \E k \in 1..Len(steps) :
       /\ GetFunction(steps[k].module, steps[k].function)
       /\ \E j \in 1..Len(Registry[<<steps[k].module, steps[k].function>>]) : \E txt \in EditTexts :
            /\ steps' = [steps EXCEPT ![k].params =
                            DictSet(@, Registry[<<steps[k].module, steps[k].function>>][j].name, txt)]
            /\ steps' # steps
  /\ sink' = <<>>
  /\ last_op' = "param_edit"
  /\ reset_from' = <<>>
  /\ UNCHANGED <<outputs, exec_state, session, ran, run, block_call>>

NextGui ==
  \/ RunSequence \/ RunAnnounce \/ RunSkip \/ RunInvoke \/ RunFinish
  \/ NestedRun \/ StepRun \/ ResetExecution \/ ParamEdit

SpecGui == InitGui /\ [][NextGui]_vars

\* ------------------------------------------------------------- observations
LastIndex == Len(steps) - 1

\* the step-run machine is in Finished
Finished == exec_state # None /\ exec_state.index > LastIndex

Statuses(log) == SelectSeq(log, LAMBDA e : e.cb = "status")
Actions(log) == SelectSeq(log, LAMBDA e : e.cb = "action")
Calls(log) == SelectSeq(log, LAMBDA e : e.cb = "action" /\ e.tag = "call")

\* one run-to-completion of the sequence from the reset state
RefRun == RunBlock(steps, ClearedOutputs(steps), <<>>, 0, Len(steps) - 1, EmptyDict, FALSE, 0, 0)

\* a stepping session that started at the reset state and saw no run_all
\* has reached Finished
SteppedToEnd == Finished /\ ~ran

\* ---------------------------------------------------------------------- C1
\* C1: stepping from the reset state until the index is beyond the last
\* step gives the same ordered status callbacks, the same final outputs of
\* every step and the same final runtime variables as one run_all.  (The
\* notices worded per mode - "run started", "step done, next index" - are
\* not compared.)
C1_StepRunEqualsRunAll ==
  SteppedToEnd =>
    /\ Statuses(session) = Statuses(RefRun.log)
    /\ outputs = RefRun.outputs
    /\ exec_state.vars = RefRun.rv

\* the position of the first action marked after position k of the log, 0
\* when there is none
NextAction(log, k) ==
  LET later == {j \in (k + 1)..Len(log) : log[j].cb = "action"}
  IN IF later = {} THEN 0 ELSE CHOOSE j \in later : \A l \in later : j <= l

\* the header of the innermost `for` block that holds index i (-1: none)
EnclosingFor(st, i) ==
  LET hs == {h \in 0..(i - 1) : IsControl(st[h + 1], "for") /\ FindMatchingEnd(st, h) >= i}
  IN IF hs = {} THEN -1 ELSE CHOOSE h \in hs : \A g \in hs : g <= h

\* the loop variables in scope at index i: those of the `for` blocks
\* around i (the closing `end` counts as inside, an unclosed `for` reaches
\* to the end of the sequence)
VisibleVars(st, i) ==
  {ForVar(st[h + 1]) : h \in {g \in 0..(i - 1) :
      /\ g < Len(st) /\ IsControl(st[g + 1], "for")
      /\ (FindMatchingEnd(st, g) = -1 \/ FindMatchingEnd(st, g) >= i)}}

\* ---------------------------------------------------------------------- C2
\* C2: after an `if` header with a matching `end` is evaluated to false,
\* the next action is not the call of a function step between the header
\* and that `end`, in run_all and in step-run.
IfFalseSkips(log) ==
  \A k \in 1..Len(log) :
    LET e == log[k]
        m == FindMatchingEnd(steps, e.at)
        j == NextAction(log, k)
    IN (e.cb = "action" /\ e.tag = "if" /\ ~Truthy(e.val) /\ m # -1 /\ j # 0)
         => ~(log[j].tag = "call" /\ e.at < log[j].at /\ log[j].at < m)

C2_FalseIfSkipsBody ==
  /\ last_op = "run_all" => IfFalseSkips(sink)
  /\ IfFalseSkips(session)

\* ---------------------------------------------------------------------- C3
\* a `for` header at h outside every other block, with its `end`, an
\* integer iterable and only loaded function steps as body
SimpleTopLoop(st, h) ==
  /\ IsControl(st[h + 1], "for")
  /\ ResolveReferences(st, ClearedOutputs(st), Param(st[h + 1], "iterable", <<>>), EmptyDict).t = "int"
  /\ FindMatchingEnd(st, h) # -1
  /\ \A b \in (h + 1)..(FindMatchingEnd(st, h) - 1) :
       st[b + 1].type = "function" /\ GetFunction(st[b + 1].module, st[b + 1].function)
  /\ \A g \in 0..(h - 1) :
       IsHeader(st[g + 1]) => (FindMatchingEnd(st, g) # -1 /\ FindMatchingEnd(st, g) < h)

LoopCount(st, h) ==
  ResolveReferences(st, ClearedOutputs(st), Param(st[h + 1], "iterable", <<>>), EmptyDict).n

\* the text ${@var}
VarRef(var) == <<"$", "{", "@">> \o var \o <<"}">>

LoopRunsNTimes(log) ==
  \A h \in 0..LastIndex :
    (SimpleTopLoop(steps, h) /\ \E k \in 1..Len(log) : log[k].cb = "action" /\ log[k].tag = "for" /\ log[k].at = h)
    => \A b \in (h + 1)..(FindMatchingEnd(steps, h) - 1) :
         LET cs == SelectSeq(log, LAMBDA e : e.cb = "action" /\ e.tag = "call" /\ e.at = b)
             ps == steps[b + 1].params
         IN /\ Len(cs) = LoopCount(steps, h)
            /\ \A k \in 1..Len(cs) : \A p \in DOMAIN ps :
                 ps[p] = VarRef(Param(steps[h + 1], "var", <<>>)) => cs[k].vars[p] = IntV(k - 1)

\* C3: a `for` header over the integer N runs every function step of its
\* body exactly N times, the k-th time with ${@var} resolved to k - 1, in
\* run_all and in a stepping session.  (Stated for the loops outside every
\* other block, whose header is evaluated once, with function steps only
\* as body.)
C3_ForRunsBodyNTimes ==
  /\ last_op = "run_all" => LoopRunsNTimes(sink)
  /\ SteppedToEnd => LoopRunsNTimes(session)

\* ---------------------------------------------------------------------- C4
EmptyForSkips(log) ==
  \A k \in 1..Len(log) :
    LET e == log[k]
        m == FindMatchingEnd(steps, e.at)
        j == NextAction(log, k)
    IN (e.cb = "action" /\ e.tag = "for" /\ e.val = IntV(0) /\ m # -1 /\ j # 0)
         => ~(log[j].tag = "call" /\ e.at < log[j].at /\ log[j].at < m)

\* C4: after a `for` header with a matching `end` is evaluated to an empty
\* iterator, the next action is not the call of a function step of its
\* body, in run_all and in step-run, and step-run holds no LoopFrame with
\* an empty iterator.
C4_EmptyForSkipsBody ==
  /\ last_op = "run_all" => EmptyForSkips(sink)
  /\ EmptyForSkips(session)
  /\ exec_state # None =>
       \A f \in 1..Len(exec_state.loop_stack) : exec_state.loop_stack[f].iterator # <<>>

\* ---------------------------------------------------------------------- C5
\* after a `break` inside a `for` block is performed, no function step of
\* that block is called before the header of the block is evaluated again
BreakLeavesLoop(log) ==
  \A k \in 1..Len(log) :
    LET e == log[k]
        h == EnclosingFor(steps, e.at)
        m == FindMatchingEnd(steps, h)
        later == {j \in (k + 1)..Len(log) :
                    /\ log[j].cb = "action"
                    /\ \/ log[j].tag = "for" /\ log[j].at = h
                       \/ log[j].tag = "call" /\ h < log[j].at /\ log[j].at < m}
    IN (e.cb = "action" /\ e.tag = "break" /\ h # -1 /\ later # {})
         => (LET j == CHOOSE j \in later : \A l \in later : j <= l
             IN log[j].at = h)

\* C5: a `break` reached inside a `for` body ends the innermost enclosing
\* loop: no later step of that loop's body runs and its remaining
\* iterations are dropped, in run_all and in step-run.
C5_BreakEndsInnermostFor ==
  /\ last_op = "run_all" => BreakLeavesLoop(sink)
  /\ BreakLeavesLoop(session)

\* ---------------------------------------------------------------------- C6
\* the steps without the one at index b
Without(st, b) == SubSeq(st, 1, b) \o SubSeq(st, b + 2, Len(st))

\* the calls of a log: function and arguments, in order
CallSigs(st, log) ==
  LET cs == Calls(log) IN [k \in 1..Len(cs) |-> <<st[cs[k].at + 1].function, cs[k].vars>>]

\* step requests from the state es until the index is beyond the last step
RECURSIVE StepToEnd(_, _, _, _)
StepToEnd(st, outs, es, log) ==
  IF es.index > Len(st) - 1 THEN StepResult(es, outs, log)
  ELSE LET r == StepRunResult(st, outs, es) IN StepToEnd(st, r.outputs, r.es, log \o r.log)

TopLevelBreaks(st) ==
  {b \in 0..(Len(st) - 1) : IsControl(st[b + 1], "break") /\ EnclosingFor(st, b) = -1}

\* C6: a `break` outside every `for` is a no-op: the same calls are made,
\* with the same arguments, as on the sequence without that break, in
\* run_all and in a stepping session.
C6_TopLevelBreakIsNoOp ==
  \A b \in TopLevelBreaks(steps) :
    LET W == Without(steps, b) IN
    /\ last_op = "run_all" =>
         CallSigs(steps, sink) = CallSigs(W, RunAllResult(W, ClearedOutputs(W)).log)
    /\ SteppedToEnd =>
         CallSigs(steps, session) = CallSigs(W, StepToEnd(W, ClearedOutputs(W), FreshState, <<>>).log)

\* ---------------------------------------------------------------------- C7
\* every snapshot a log shows at a step holds loop variables in scope only
NoLeak(log) ==
  \A k \in 1..Len(log) :
    (log[k].cb = "watcher" /\ log[k].at # -1)
      => DOMAIN log[k].vars \subseteq VisibleVars(steps, log[k].at)

\* C7: a loop variable is visible inside its loop only: the runtime
\* variables at a step are bound by the `for` blocks around that step, in
\* run_all and in step-run.
C7_LoopVarScoped ==
  /\ last_op = "run_all" => NoLeak(sink)
  /\ NoLeak(session)
  /\ exec_state # None => DOMAIN exec_state.vars \subseteq VisibleVars(steps, exec_state.index)

\* ---------------------------------------------------------------------- C8
\* _run_block(next_index, last_index, vars, max_actions = 1) chained from
\* (idx, runtime_vars); a BreakLoop that escapes ends the chain
RECURSIVE ChainRun(_, _, _, _, _)
ChainRun(st, outs, log, idx, runtime_vars) ==
  IF idx > Len(st) - 1 THEN Returned(idx, runtime_vars, 0, outs, log)
  ELSE LET r == RunBlock(st, outs, log, idx, Len(st) - 1, runtime_vars, TRUE, 1, 0)
       IN IF r.exc \/ r.fault THEN r ELSE ChainRun(st, r.outputs, r.log, r.ni, r.rv)

\* C8: the chain of one-action calls makes the calls of one unbounded
\* _run_block(0, last_index, {}): same steps, same order, same arguments.
C8_BoundedChainEqualsUnbounded ==
  Calls(ChainRun(steps, ClearedOutputs(steps), <<>>, 0, EmptyDict).log) = Calls(RefRun.log)

\* ---------------------------------------------------------------------- C9
\* C9: a step request made while the index is within the sequence performs
\* exactly one action (one header evaluation, one break or one call).
C9_StepIsOneAction ==
  (last_op = "step_run" /\ sink[1].tag # "at_end") => Len(Actions(sink)) = 1

\* --------------------------------------------------------------------- C10
\* C10: in Finished a step request reports "at end" and nothing else: the
\* execution state and every step's outputs stay as they are, no callable
\* is invoked and no status callback is made.
C10_FinishedAbsorbing ==
  [][(Finished /\ last_op' = "step_run") =>
       /\ exec_state' = exec_state
       /\ outputs' = outputs
       /\ sink' = <<OutputEv("at_end", -1, -1, NoneV)>>]_vars

\* a second request in Finished was answered, on a sequence that ran a call
C10_Witness ==
  /\ Finished
  /\ last_op = "step_run"
  /\ AtEndReports(session) = 2
  /\ Calls(session) # <<>>

\* --------------------------------------------------------------------- C11
\* the callbacks of a log that left an exception to the caller
Raises(log) == SelectSeq(log, LAMBDA e : e.cb = "raise")
Snapshots(log) == SelectSeq(log, LAMBDA e : e.cb = "watcher")

\* C11: reset_execution, called in any state, leaves index 0, no variables,
\* no loop frames and empty outputs on every step, and emits one empty
\* snapshot; called again right after, it leaves exactly the same state,
\* without an exception.
C11_ResetYieldsEmptyState ==
  [][last_op' = "reset_execution" =>
       /\ exec_state'.index = 0
       /\ DOMAIN exec_state'.vars = {}
       /\ Len(exec_state'.loop_stack) = 0
       /\ Len(outputs') = Len(steps)
       /\ \A k \in 1..Len(outputs') : DOMAIN outputs'[k] = {}
       /\ Len(Snapshots(sink')) = 1
       /\ DOMAIN Snapshots(sink')[1].vars = {}
       /\ Raises(sink') = <<>>
       /\ last_op = "reset_execution" => (exec_state' = exec_state /\ outputs' = outputs)]_vars

\* reset_execution was called with frames on loop_stack, and
\* then once more
C11_Witness ==
  /\ last_op = "reset_execution"
  /\ reset_from = <<"in_loop", "again">>

\* --------------------------------------------------------------------- C12
\* how the calls of a log ended
Results(log) == SelectSeq(log, LAMBDA e : e.cb = "result")

\* in a log every invocation ends once and is reported right away: the
\* status of its step is true for None or a truthy value, false for another
\* value and false for an exception, whose message the output before it is
StatusFollowsResult(log) ==
  /\ Len(Results(log)) = Len(Calls(log))
  /\ Len(Statuses(log)) = Len(Calls(log))
  /\ \A k \in 1..Len(log) :
       log[k].cb = "result" =>
         /\ k + 2 <= Len(log)
         /\ log[k - 1].cb = "action" /\ log[k - 1].tag = "call" /\ log[k - 1].at = log[k].at
         /\ log[k + 1].cb = "output"
         /\ log[k + 2].cb = "status"
         /\ log[k + 2].idx = log[k].at
         /\ log[k + 2].val.t = "bool"
         /\ (log[k + 2].val.n = 1) <=>
              (log[k].tag = "return" /\ (log[k].val.t = "none" \/ Truthy(log[k].val)))
         /\ log[k].tag = "raise" =>
              (log[k + 1].tag = "error" /\ log[k + 1].val = log[k].val /\ log[k].val.t = "str")

\* C12: the status reported for an invocation is true when the callable
\* returns None or a truthy value, false when it returns a falsy value other
\* than None, and false, with the error message as output text, when it
\* raises.
C12_SuccessDetermination ==
  last_op \in {"run_all", "step_run"} => StatusFollowsResult(sink)

\* one run_all in which a callable returned None, one returned 0 and one
\* raised
C12_Witness ==
  /\ last_op = "run_all"
  /\ \E k \in 1..Len(sink) : sink[k].cb = "result" /\ sink[k].tag = "return" /\ sink[k].val.t = "none"
  /\ \E k \in 1..Len(sink) : sink[k].cb = "result" /\ sink[k].tag = "return" /\ sink[k].val = IntV(0)
  /\ \E k \in 1..Len(sink) : sink[k].cb = "result" /\ sink[k].tag = "raise"

\* --------------------------------------------------------------------- C13
\* the steps at which a callable raised in a log
RaisedAt(log) == {log[k].at : k \in {j \in 1..Len(log) : log[j].cb = "result" /\ log[j].tag = "raise"}}

\* the sequence with a callable that returns normally at each step of `at`
Calmed(st, at) == [k \in 1..Len(st) |-> IF k - 1 \in at THEN NoopStep ELSE st[k]]

\* the control flow of a log: which header was evaluated and which step was
\* called, in order
Flow(log) == [k \in 1..Len(Actions(log)) |-> <<Actions(log)[k].tag, Actions(log)[k].at>>]

\* C13: a callable that raises during run_all is caught at its step: a
\* failed status is reported for that step, the run goes on with the steps
\* it would visit had the callable returned, and it ends with the normal
\* completion notice.
C13_RaiseCaughtAtStep ==
  (last_op = "run_all" /\ RaisedAt(sink) # {}) =>
    /\ \A k \in 1..Len(sink) :
         (sink[k].cb = "result" /\ sink[k].tag = "raise") =>
           (k + 2 <= Len(sink) /\ sink[k + 2] = StatusEv(sink[k].at, FALSE))
    /\ Flow(sink) = Flow(RunAllResult(Calmed(steps, RaisedAt(sink)), ClearedOutputs(steps)).log)
    /\ sink[Len(sink)].tag = "run_done"
    /\ Raises(sink) = <<>>

\* a callable raised in run_all and a later step was called
C13_Witness ==
  /\ last_op = "run_all"
  /\ \E k \in 1..Len(sink) : \E j \in 1..Len(sink) :
       /\ sink[k].cb = "result" /\ sink[k].tag = "raise"
       /\ j > k
       /\ sink[j].cb = "action" /\ sink[j].tag = "call" /\ sink[j].at > sink[k].at

\* --------------------------------------------------------------------- C14
\* the function steps whose (module, function) the registry does not hold
UnknownSteps(st) ==
  {i \in 0..Len(st) - 1 : st[i + 1].type = "function" /\ ~GetFunction(st[i + 1].module, st[i + 1].function)}

\* an event the block executor makes when it arrives at step j
ArrivesAt(e, j) == e.at = j /\ (e.cb = "action" \/ (e.cb = "output" /\ e.tag \in {"skip_unknown", "invoking"}))

\* in a log every visit of an unknown function step is a skip notice with a
\* snapshot, the step that follows is visited next, and no call, result or
\* status is logged for the unknown step
SkipsUnknown(log) ==
  /\ \A k \in 1..Len(log) : \A i \in UnknownSteps(steps) :
       /\ log[k].at = i =>
            /\ log[k].cb \in {"output", "watcher"}
            /\ log[k].tag \notin {"invoking", "coerce_failed", "success", "failure", "error"}
            /\ log[k].tag = "skip_unknown" => (k < Len(log) /\ log[k + 1] = WatcherEv(i, log[k + 1].vars))
            /\ log[k].cb = "watcher" => (k > 1 /\ log[k - 1].tag = "skip_unknown" /\ log[k - 1].at = i)
       /\ (log[k].tag = "skip_unknown" /\ log[k].at = i /\ i < LastIndex /\ ~IsControl(steps[i + 2], "end")) =>
            (k + 2 <= Len(log) /\ ArrivesAt(log[k + 2], i + 1))

\* C14: a function step that is not in the registry is skipped: a skip
\* notice is logged, no callable is invoked and no status is reported for
\* it, its outputs stay as they were, it is not counted as an action, and
\* the step that follows is executed next, in step-run within the same
\* request.
C14_UnknownFunctionSkipped ==
  /\ \A i \in UnknownSteps(steps) : DOMAIN outputs[i + 1] = {}
  /\ last_op = "run_all" => SkipsUnknown(sink)
  /\ last_op = "step_run" =>
       /\ SkipsUnknown(sink)
       /\ sink[Len(sink)].tag = "step_done" => sink[Len(sink)].val = IntV(Len(Actions(sink)))

\* a step request that began at an unknown function, skipped it and called
\* the function after it
C14_Witness ==
  /\ last_op = "step_run"
  /\ Len(sink) > 3
  /\ sink[1].tag = "skip_unknown"
  /\ sink[3].tag = "invoking" /\ sink[3].at = sink[1].at + 1
  /\ Calls(sink) # <<>>

\* --------------------------------------------------------------------- C15
\* after an `if` header without `end` is evaluated to false, no step behind
\* it is acted upon
UnclosedIfSkips(log) ==
  \A k \in 1..Len(log) :
    (log[k].cb = "action" /\ log[k].tag = "if" /\ ~Truthy(log[k].val) /\ FindMatchingEnd(steps, log[k].at) = -1)
      => \A j \in (k + 1)..Len(log) : ~(log[j].cb = "action" /\ log[j].at > log[k].at)

\* a `for` header at h without `end`, outside every other block, with an
\* integer iterable and only loaded function steps behind it
UnclosedTopLoop(st, h) ==
  /\ IsControl(st[h + 1], "for")
  /\ ResolveReferences(st, ClearedOutputs(st), Param(st[h + 1], "iterable", <<>>), EmptyDict).t = "int"
  /\ FindMatchingEnd(st, h) = -1
  /\ \A b \in (h + 1)..(Len(st) - 1) :
       st[b + 1].type = "function" /\ GetFunction(st[b + 1].module, st[b + 1].function)
  /\ \A g \in 0..(h - 1) :
       IsHeader(st[g + 1]) => (FindMatchingEnd(st, g) # -1 /\ FindMatchingEnd(st, g) < h)

\* the steps behind such a header are called once per value, the k-th time
\* with ${@var} resolved to k - 1
UnclosedForRuns(log) ==
  \A h \in 0..LastIndex :
    (UnclosedTopLoop(steps, h) /\ \E k \in 1..Len(log) : log[k].cb = "action" /\ log[k].tag = "for" /\ log[k].at = h)
    => \A b \in (h + 1)..LastIndex :
         LET cs == SelectSeq(log, LAMBDA e : e.cb = "action" /\ e.tag = "call" /\ e.at = b)
             ps == steps[b + 1].params
         IN /\ Len(cs) = LoopCount(steps, h)
            /\ \A k \in 1..Len(cs) : \A p \in DOMAIN ps :
                 ps[p] = VarRef(Param(steps[h + 1], "var", <<>>)) => cs[k].vars[p] = IntV(k - 1)

\* C15: an `if` or `for` header without a matching `end` is a block that
\* reaches to the last step: a false `if` without `end` skips every step
\* behind it, a `for` without `end` over N values runs the steps behind it N
\* times with the loop variable bound, and no exception comes of it, in
\* run_all and in a stepping session.
C15_UnclosedBlockReachesEnd ==
  /\ last_op = "run_all" => (UnclosedIfSkips(sink) /\ UnclosedForRuns(sink) /\ Raises(sink) = <<>>)
  /\ UnclosedIfSkips(session)
  /\ SteppedToEnd => UnclosedForRuns(session)
  /\ Raises(session) = <<>>

\* --------------------------------------------------------------------- C16
\* a header whose condition or iterable neither literal_eval nor eval accepts
BadHeader(st, h) ==
  \/ IsControl(st[h + 1], "if") /\ Param(st[h + 1], "condition", <<>>) = TxtBadCond
  \/ IsControl(st[h + 1], "for") /\ Param(st[h + 1], "iterable", <<>>) = TxtBadIter

\* every evaluation of such a header in a log gave false or no values, and
\* the next action is not at a step of its block
BadExprSkips(log) ==
  \A k \in 1..Len(log) :
    (log[k].cb = "action" /\ log[k].tag \in {"if", "for"} /\ BadHeader(steps, log[k].at)) =>
      /\ log[k].val = IF log[k].tag = "if" THEN BoolV(FALSE) ELSE IntV(0)
      /\ NextAction(log, k) # 0 =>
           ~(log[k].at < log[NextAction(log, k)].at
             /\ log[NextAction(log, k)].at < FindMatchingEnd(steps, log[k].at))

\* no header iterates over an int above sys.maxsize
NoHugeIterable(st) ==
  \A h \in 0..Len(st) - 1 : ~(IsControl(st[h + 1], "for") /\ Param(st[h + 1], "iterable", <<>>) = TxtHuge)

\* C16: a condition that cannot be evaluated counts as false and its `if`
\* body is skipped, an iterable that cannot be evaluated counts as empty and
\* its `for` body runs zero times, and the evaluation raises no exception,
\* in run_all and in step-run.
C16_BadExpressionIsFalseOrEmpty ==
  /\ last_op = "run_all" => BadExprSkips(sink)
  /\ BadExprSkips(session)
  /\ NoHugeIterable(steps) => (Raises(sink) = <<>> /\ Raises(session) = <<>>)

\* --------------------------------------------------------------------- C17
\* a run_all log whose last action is a `break` ends with the note that the
\* break was ignored, not with an error notice
BreakEndsWithNote(log) ==
  (Actions(log) # <<>> /\ Actions(log)[Len(Actions(log))].tag = "break")
    => log[Len(log)].tag \in {"run_break_ignored", "run_done"}

\* C17: no exception leaves run_all or step_run: a failing callable, a bad
\* expression, a failed coercion, an unclosed block, a break outside a loop
\* end as a logged message or a failed status, and a top-level break ends
\* run_all with a note.
C17_NoExceptionPropagates ==
  /\ last_op \in {"run_all", "step_run"} => Raises(sink) = <<>>
  /\ last_op = "run_all" => BreakEndsWithNote(sink)

\* --------------------------------------------------------------------- C18
\* the ExecutionState a step request starts from: step_run installs the
\* initial one when there is none yet (Idle), before it executes anything
StartedFrom(es) == IF es = None THEN FreshState ELSE es

\* C18: when an exception interrupts a step request, the ExecutionState
\* (index, vars, loop_stack with the position of every frame) is afterwards
\* the one the request started from, or the machine is in Finished: it is
\* never left half-updated.
C18_FaultLeavesStateAsBefore ==
  [][(last_op' = "step_run" /\ Raises(sink') # <<>>) =>
       (exec_state' = StartedFrom(exec_state) \/ exec_state'.index > LastIndex)]_vars

\* a request that began inside a running loop, after a call, was interrupted
C18_Witness ==
  /\ last_op = "step_run"
  /\ Raises(sink) # <<>>
  /\ exec_state.loop_stack # <<>>
  /\ Calls(session) # <<>>

\* --------------------------------------------------------------------- C19
\* the indices of the `if` / `for` headers
Headers(st) == {h \in 0..Len(st) - 1 : IsHeader(st[h + 1])}

\* the ranges (h, end of h) and (g, end of g) lie apart or one strictly
\* inside the other
ApartOrNested(h, mh, g, mg) ==
  \/ mh < g
  \/ mg < h
  \/ (h < g /\ mg < mh)
  \/ (g < h /\ mh < mg)

\* C19: on a well-formed sequence _find_matching_end gives every header an
\* index behind the header that holds an `end`, no two headers get the same
\* index, and two (header, end) ranges are disjoint or one is strictly
\* inside the other.
C19_MatchingEndPairsBlocks ==
  WellFormed(steps) =>
    \A h \in Headers(steps) :
      /\ FindMatchingEnd(steps, h) > h
      /\ FindMatchingEnd(steps, h) <= LastIndex
      /\ IsControl(steps[FindMatchingEnd(steps, h) + 1], "end")
      /\ \A g \in Headers(steps) \ {h} :
           /\ FindMatchingEnd(steps, g) # FindMatchingEnd(steps, h)
           /\ ApartOrNested(h, FindMatchingEnd(steps, h), g, FindMatchingEnd(steps, g))

\* run_all went through a block nested in another block
C19_Witness ==
  /\ last_op = "run_all"
  /\ \E h \in Headers(steps) : \E g \in Headers(steps) :
       /\ h < g /\ FindMatchingEnd(steps, g) < FindMatchingEnd(steps, h)
       /\ \E k \in 1..Len(sink) : sink[k].cb = "action" /\ sink[k].at = g

\* --------------------------------------------------------------------- C20
\* the text ${#N:key}
StepRef(N, key) == <<"$", "{", "#">> \o IntToDigits(N) \o <<":">> \o key \o <<"}">>

\* the names and numbers the references are made of: parameters, outputs
\* and a name no step has; every step, 0, and numbers behind the last step
RefKeys == {<<"a">>, <<"b">>, <<"s", "u", "m">>, <<"r", "e", "t", "u", "r", "n">>, <<"z", "z">>}
RefNumbers == 0..(Len(steps) + 1) \cup {10}
RefVars == {EmptyDict, "i" :> IntV(1), IF exec_state = None THEN EmptyDict ELSE exec_state.vars}

\* what ${#N:key} stands for, as text: outputs[key] of step N, else
\* params[key] of step N, else nothing; nothing when there is no step N
Referred(st, outs, N, key) ==
  IF N \in 1..Len(st)
  THEN IF Join(key) \in DOMAIN outs[N] THEN PyStr(outs[N][Join(key)])
       ELSE IF Join(key) \in DOMAIN st[N].params THEN st[N].params[Join(key)]
       ELSE <<>>
  ELSE <<>>

\* what ${@name} stands for, as text
Bound(runtime_vars, name) ==
  IF Join(name) \in DOMAIN runtime_vars THEN PyStr(runtime_vars[Join(name)]) ELSE <<>>

\* C20: ${#N:key} (N counted from 1 over the whole sequence) resolves to
\* outputs[key] of step N when the key is among the outputs, else to
\* params[key] of step N, else to the empty string; N outside 1..len(steps),
\* 0 included, gives the empty string; ${@name} resolves to vars[name] or
\* the empty string.  (A value is compared as the resolver returns it: the
\* literal its text denotes, the text itself otherwise.)
C20_ReferenceYieldsValue ==
  \A rv \in RefVars :
    /\ \A N \in RefNumbers : \A key \in RefKeys :
         ResolveReferences(steps, outputs, StepRef(N, key), rv) = LiteralOrText(Referred(steps, outputs, N, key))
    /\ \A name \in {<<"i">>, <<"j">>} :
         ResolveReferences(steps, outputs, VarRef(name), rv) = LiteralOrText(Bound(rv, name))

\* C20 amended: as C20, but the text that ${#N:key} stands for goes through
\* the substitution of the ${@name} references before it is returned: a
\* ${@name} inside params[key] or outputs[key] of step N resolves to
\* vars[name] of the resolving scope, or to the empty string.
C20_ReferenceYieldsSubstitutedText ==
  \A rv \in RefVars :
    /\ \A N \in RefNumbers : \A key \in RefKeys :
         ResolveReferences(steps, outputs, StepRef(N, key), rv)
           = LiteralOrText(SubVarRefs(rv, Referred(steps, outputs, N, key), 1))
    /\ \A name \in {<<"i">>, <<"j">>} :
         ResolveReferences(steps, outputs, VarRef(name), rv) = LiteralOrText(Bound(rv, name))

\* in a running loop a reference to the parameter `a` of a step, whose text
\* is ${@i}, resolves to the value of i, and a reference to a step that has
\* `sum` among its parameters and its outputs resolves to the output
C20_Witness ==
  /\ last_op = "step_run"
  /\ "i" \in DOMAIN exec_state.vars
  /\ \E N \in 1..Len(steps) :
       /\ Param(steps[N], "a", <<>>) = TxtRefI
       /\ ResolveReferences(steps, outputs, StepRef(N, <<"a">>), exec_state.vars) = exec_state.vars["i"]
  /\ \E N \in 1..Len(steps) :
       /\ "sum" \in DOMAIN steps[N].params
       /\ "sum" \in DOMAIN outputs[N]
       /\ ResolveReferences(steps, outputs, StepRef(N, <<"s", "u", "m">>), exec_state.vars) = IntV(0)

\* --------------------------------------------------------------------- C21
\* the text of a reference after both substitution passes
Substituted(txt, rv) == SubVarRefs(rv, SubStepRefs(steps, outputs, txt, 1), 1)

\* C21: a text that is exactly one reference to an integer resolves to
\* that integer, typed: ${#N:key} with an int under outputs[key] of step N
\* gives the int, ${@name} with an int under vars[name] gives the int; a
\* text that is no literal after the substitution comes back as the
\* substituted string.
C21_IntReferenceIsTyped ==
  \A rv \in RefVars :
    /\ \A N \in 1..Len(steps) : \A key \in RefKeys :
         (Join(key) \in DOMAIN outputs[N] /\ outputs[N][Join(key)].t = "int")
           => ResolveReferences(steps, outputs, StepRef(N, key), rv) = IntV(outputs[N][Join(key)].n)
    /\ \A name \in {<<"i">>, <<"j">>} :
         (Join(name) \in DOMAIN rv /\ rv[Join(name)].t = "int")
           => ResolveReferences(steps, outputs, VarRef(name), rv) = IntV(rv[Join(name)].n)
    /\ \A N \in RefNumbers : \A key \in RefKeys :
         ~LiteralEval(Substituted(StepRef(N, key), rv)).ok
           => ResolveReferences(steps, outputs, StepRef(N, key), rv) = StrV(Substituted(StepRef(N, key), rv))

\* after a run one step holds an int among its outputs and another a text
\* that is no literal
C21_Witness ==
  /\ last_op = "run_all"
  /\ \E N \in 1..Len(steps) : "sum" \in DOMAIN outputs[N] /\ outputs[N]["sum"].t = "int"
  /\ \E N \in 1..Len(steps) :
       /\ "sum" \in DOMAIN outputs[N] /\ outputs[N]["sum"].t = "str"
       /\ ~LiteralEval(PyStr(outputs[N]["sum"])).ok

\* --------------------------------------------------------------------- C22
\* the steps at which a conversion failed in a log
CoerceFailedAt(log) == {log[k].at : k \in {j \in 1..Len(log) : log[j].tag = "coerce_failed"}}

\* the declared parameters of the callable of step i
SigOf(i) == Registry[<<steps[i + 1].module, steps[i + 1].function>>]

\* in a log every warning of a failed conversion is followed, before any
\* other action, by the call of the same step with the resolved value bound
\* unconverted, and every int parameter called with a value that is no int
\* had its warning
CoercionFallsBack(log) ==
  /\ \A k \in 1..Len(log) :
       log[k].tag = "coerce_failed" =>
         /\ ~PyInt(log[k].val).ok
         /\ NextAction(log, k) # 0
         /\ log[NextAction(log, k)].tag = "call"
         /\ log[NextAction(log, k)].at = log[k].at
         /\ log[NextAction(log, k)].vars[SigOf(log[k].at)[log[k].idx].name] = log[k].val
  /\ \A j \in 1..Len(log) :
       (log[j].cb = "action" /\ log[j].tag = "call") =>
         \A q \in 1..Len(SigOf(log[j].at)) :
           (SigOf(log[j].at)[q].ann = "int" /\ log[j].vars[SigOf(log[j].at)[q].name].t \notin {"int", "long"})
             => \E k \in 1..(j - 1) :
                  /\ log[k] = OutputEv("coerce_failed", log[j].at, q, log[j].vars[SigOf(log[j].at)[q].name])
                  /\ NextAction(log, k) = j

\* C22: when the resolved value of a parameter declared int cannot be
\* converted, a warning is logged, the callable is invoked with the
\* unconverted value for that parameter, and the run goes on with the steps
\* it would visit had the conversion succeeded.  (float parameters take the
\* same two lines of the code; the registry holds int parameters.)
C22_CoercionFailureFallsBack ==
  /\ last_op \in {"run_all", "step_run"} => CoercionFallsBack(sink)
  /\ (last_op = "run_all" /\ CoerceFailedAt(sink) # {}) =>
       /\ Flow(sink) = Flow(RunAllResult(Calmed(steps, CoerceFailedAt(sink)), ClearedOutputs(steps)).log)
       /\ sink[Len(sink)].tag = "run_done"

\* in run_all a conversion failed and a later step was called
C22_Witness ==
  /\ last_op = "run_all"
  /\ \E k \in 1..Len(sink) : \E j \in 1..Len(sink) :
       /\ sink[k].tag = "coerce_failed"
       /\ j > k
       /\ sink[j].cb = "action" /\ sink[j].tag = "call" /\ sink[j].at > sink[k].at

\* ---------------------------------------------------------------------- C23
\* the keys an invocation that returned `result` writes for a callable
Written(module, function, result) ==
  IF result.t = "dict" THEN DOMAIN result.d
  ELSE {"return"} \cup {GetReturnNames(module, function)[k] : k \in 1..Len(GetReturnNames(module, function))}

\* outputs of one step after a returned `result`: a written key holds the
\* result's value for it (a mapping) or the result itself, every other key
\* what it held before
Merged(out, module, function, result) ==
  [key \in (DOMAIN out) \cup Written(module, function, result) |->
     IF key \in Written(module, function, result)
     THEN (IF result.t = "dict" THEN result.d[key] ELSE result)
     ELSE out[key]]

\* the outputs of all steps after the invocations of a log, from event k on
RECURSIVE Replayed(_, _, _)
Replayed(outs, log, k) ==
  IF k > Len(log) THEN outs
  ELSE IF log[k].cb = "result" /\ log[k].tag = "return"
       THEN Replayed([outs EXCEPT ![log[k].at + 1] =
                        Merged(outs[log[k].at + 1], steps[log[k].at + 1].module,
                               steps[log[k].at + 1].function, log[k].val)], log, k + 1)
       ELSE Replayed(outs, log, k + 1)

\* C23: run_all and step_run change the outputs only by the invocations
\* that returned, each one merging a mapping result key by key into the
\* outputs of its step (the other keys keep their values) and storing any
\* other result under `return` and under every predicted name.
C23_ResultMergedIntoOutputs ==
  [][last_op' \in {"run_all", "step_run"} => outputs' = Replayed(outputs, sink', 1)]_vars

\* a mapping result was merged into outputs that held another key, and
\* another step holds a result under `return` and under its predicted name
C23_Witness ==
  /\ last_op \in {"run_all", "step_run"}
  /\ \E k \in 1..Len(sink) :
       /\ sink[k].cb = "result" /\ sink[k].tag = "return" /\ sink[k].val.t = "dict"
       /\ "x" \in DOMAIN sink[k].val.d
       /\ {"x", "y"} \subseteq DOMAIN outputs[sink[k].at + 1]
  /\ \E j \in 1..Len(outputs) :
       /\ {"sum", "return"} \subseteq DOMAIN outputs[j]
       /\ outputs[j]["sum"].t = "int"
       /\ outputs[j]["sum"] = outputs[j]["return"]

\* ---------------------------------------------------------------------- C24
\* the progress notices of step_run
StepNotices ==
  {"step_done", "step_empty_for", "step_enter_for", "step_break_in_loop", "step_break_ignored",
   "step_loop_next", "step_loop_done", "step_if_true", "step_if_false"}

\* C24: a step request that does not report "at end" emits a progress notice
\* and a snapshot of the runtime variables, and the last snapshot it emits
\* equals the vars of exec_state after the transition.
C24_StepEndsWithSnapshot ==
  (last_op = "step_run" /\ Raises(sink) = <<>> /\ \A k \in 1..Len(sink) : sink[k].tag # "at_end")
    => /\ \E k \in 1..Len(sink) : sink[k].cb = "output" /\ sink[k].tag \in StepNotices
       /\ Snapshots(sink) # <<>>
       /\ Snapshots(sink)[Len(Snapshots(sink))].vars = exec_state.vars

\* ---------------------------------------------------------------------- C25
\* the positions of a log where an action is performed
ActionAt(log) == {k \in 1..Len(log) : log[k].cb = "action"}

\* the invocation performed at position p of a log is announced by the
\* invoking notice of its step after every earlier action, and followed by
\* the result notice and the status of that step; from the notice to the
\* status the log holds callbacks of that step only and no other action
InvocationInOrder(log, p) ==
  \E q \in 1..(p - 1) :
    /\ log[q].cb = "output" /\ log[q].tag = "invoking"
    /\ p + 3 <= Len(log)
    /\ log[p + 2].cb = "output" /\ log[p + 2].tag \in {"success", "failure", "error"}
    /\ log[p + 3].cb = "status"
    /\ \A k \in q..(p + 3) : log[k].at = log[p].at /\ (k \in ActionAt(log) => k = p)

\* C25: the sink sees every invocation in the order the executor performs
\* it (invoking notice, result notice, status of that step, all before a
\* callback of a later action), and the status callbacks are in the order
\* of the invocations.
C25_SinkSeesExecutorOrder ==
  last_op \in {"run_all", "step_run"} =>
    /\ \A p \in ActionAt(sink) : sink[p].tag = "call" => InvocationInOrder(sink, p)
    /\ [k \in 1..Len(Statuses(sink)) |-> Statuses(sink)[k].at] = [k \in 1..Len(Calls(sink)) |-> Calls(sink)[k].at]

\* a run that invoked two different steps, one of them after a failed
\* conversion, and between them evaluated a loop header
C25_Witness ==
  /\ last_op = "run_all"
  /\ CoerceFailedAt(sink) # {}
  /\ \E p, r \in ActionAt(sink) :
       /\ p < r /\ sink[p].tag = "call" /\ sink[r].tag = "call" /\ sink[p].at # sink[r].at
       /\ \E h \in ActionAt(sink) : p < h /\ h < r /\ sink[h].tag = "for"

\* ---------------------------------------------------------------------- C26
\* C26: while a run started by run_sequence is in progress nothing else
\* executes between two of its actions: the params of the steps and the
\* step-run state stay as they are, and the outputs of a step change only
\* when the run stores the result of that step.
C26_RunNotInterleaved ==
  [][run.pc # "idle" =>
       /\ steps' = steps
       /\ exec_state' = exec_state
       /\ \A k \in 1..Len(outputs) :
            outputs'[k] # outputs[k] => (run.pc = "invoking" /\ k = run.i + 1 /\ run' = [pc |-> "at", i |-> run.i + 1])]_vars

\* ---------------------------------------------------------------------- C27
\* C27: a call of the block executor with max_actions = k >= 1 performs at
\* most k actions (header evaluations, breaks, invocations) and, when it
\* returns, reports at most k actions done; with max_actions = None it
\* returns past the last step of the range.
C27_BudgetBoundsActions ==
  last_op = "run_block" =>
    /\ block_call.bounded =>
         /\ Len(Actions(sink)) <= block_call.max_actions
         /\ block_call.returned => block_call.actions <= block_call.max_actions
    /\ (~block_call.bounded /\ block_call.returned) => block_call.ni > LastIndex

\* ---------------------------------------------------------------------- C28
\* the status callbacks of a log as pairs (step index, success), in order
StatusPairs(log) == [k \in 1..Len(Statuses(log)) |-> <<Statuses(log)[k].idx, Statuses(log)[k].val.n = 1>>]

\* C28: on a sequence whose blocks are all closed and nested, stepping from
\* the reset state to Finished reports the same (step index, success) pairs
\* in the same order as run_all from the reset state, and leaves the same
\* outputs on every step.
C28_SteppingMatchesRunOnClosedBlocks ==
  (SteppedToEnd /\ WellFormed(steps)) =>
    /\ StatusPairs(session) = StatusPairs(RunAllResult(steps, ClearedOutputs(steps)).log)
    /\ \A k \in 1..Len(steps) : outputs[k] = RunAllResult(steps, ClearedOutputs(steps)).outputs[k]

\* ---------------------------------------------------------------------- C29
\* the number of elements the header at h had when the session evaluated it
\* last (-1: the session has not evaluated it)
LastForEval(log, h) ==
  LET at == {k \in 1..Len(log) : log[k].cb = "action" /\ log[k].tag = "for" /\ log[k].at = h}
  IN IF at = {} THEN -1 ELSE log[CHOOSE k \in at : \A j \in at : j <= k].val.n

\* C29: in a stepping session, while the index is inside the block of a
\* `for` header that has its `end` (header < index <= end) and that was last
\* evaluated with elements to iterate, loop_stack holds a frame that starts
\* at the header and vars binds the loop variable of the header.
C29_LoopBodyHasFrame ==
  (exec_state # None /\ ~ran) =>
    \A h \in 0..LastIndex :
      (/\ IsControl(steps[h + 1], "for")
       /\ FindMatchingEnd(steps, h) # -1
       /\ h < exec_state.index /\ exec_state.index <= FindMatchingEnd(steps, h)
       /\ LastForEval(session, h) > 0)
      => /\ \E f \in 1..Len(exec_state.loop_stack) : exec_state.loop_stack[f].start = h
         /\ ForVar(steps[h + 1]) \in DOMAIN exec_state.vars

\* ---------------------------------------------------------------------- C30
\* C30: every frame that stepping pushed has been popped, by exhaustion or
\* by a break, once the index is beyond the last step: loop_stack is empty
\* in Finished, for `for` headers with and without an `end`.
C30_FinishedHasNoFrames ==
  Finished => exec_state.loop_stack = <<>>

\* ---------------------------------------------------------------------- C31
\* C31: the action count a call of the block executor reports - the count
\* it returns, or the count the BreakLoop that leaves it carries - is the
\* number of actions (header evaluations, breaks, invocations) the call
\* performed.
C31_ActionCountIsExact ==
  (last_op = "run_block" /\ block_call.called) => block_call.actions = Len(Actions(sink))

\* ---------------------------------------------------------------------- C32
\* headers minus `end` steps among the indices s..e
Balance(st, s, e) ==
  Cardinality({j \in s..e : IsControl(st[j + 1], "if") \/ IsControl(st[j + 1], "for")})
    - Cardinality({j \in s..e : IsControl(st[j + 1], "end")})

\* the smallest index e > s that holds an `end` and up to which the headers
\* from s on are as many as the `end` steps; -1 when there is none
ReferenceEnd(st, s) ==
  LET es == {e \in (s + 1)..(Len(st) - 1) : IsControl(st[e + 1], "end") /\ Balance(st, s, e) = 0}
  IN IF es = {} THEN -1 ELSE CHOOSE e \in es : \A f \in es : e <= f

\* C32: for every header of every sequence, closed or not, the matching end
\* the engine finds is the first `end` behind the header at which headers
\* and `end` steps counted from the header are equal in number, `if` and
\* `for` counted together, and -1 when there is no such `end`.
C32_MatchingEndIsReference ==
  \A s \in Headers(steps) : FindMatchingEnd(steps, s) = ReferenceEnd(steps, s)

\* a stepping session on a sequence in which a header of one kind follows
\* a header of the other kind and takes the only `end` left, so that the
\* first header has none
C32_Witness ==
  /\ last_op = "step_run"
  /\ \E s, u \in Headers(steps) :
       /\ s < u /\ steps[s + 1].control # steps[u + 1].control
       /\ FindMatchingEnd(steps, u) # -1
       /\ FindMatchingEnd(steps, s) = -1

StartsAtControl(st, es) ==
  /\ StartedFrom(es).index <= Len(st) - 1
  /\ \/ IsHeader(st[StartedFrom(es).index + 1])
     \/ IsControl(st[StartedFrom(es).index + 1], "break")

\* C34: one step request invokes at most one callable and makes at most one
\* status callback; a request that starts at a `for`, `if` or `break` step
\* invokes no callable and leaves the outputs of every step as they were.
C34_OneInvocationPerRequest ==
  [][last_op' = "step_run" =>
       /\ Len(Calls(sink')) <= 1
       /\ Len(Statuses(sink')) <= 1
       /\ StartsAtControl(steps, exec_state) => (Calls(sink') = <<>> /\ Statuses(sink') = <<>> /\ outputs' = outputs)]_vars

\* a request that evaluated a header or a break and invoked nothing, in a
\* session in which the callable behind an `end` was invoked
C34_Witness ==
  /\ last_op = "step_run"
  /\ Calls(sink) = <<>>
  /\ \E k \in 1..Len(sink) : sink[k].cb = "action" /\ sink[k].tag \in {"if", "for", "break"}
  /\ \E k \in 1..Len(session) :
       /\ session[k].cb = "action" /\ session[k].tag = "call"
       /\ session[k].at > 0 /\ IsControl(steps[session[k].at], "end")

\* ---------------------------------------------------------------------- C35
\* the positions of the frames of an ExecutionState
FramePositions(es) == [f \in 1..Len(es.loop_stack) |-> es.loop_stack[f].pos]

\* the number of step requests a session log holds: each request ends with
\* one progress notice, the "at end" notice or an exception
Requests(log) ==
  Cardinality({k \in 1..Len(log) :
                 log[k].cb = "raise" \/ (log[k].cb = "output" /\ log[k].tag \in StepNotices \cup {"at_end"})})

\* more requests than any session needs on a sequence st whose loops iterate
\* over up to two elements
RequestBound(st) == 4 * (Len(st) + 1) * (Len(st) + 1)

\* C35: step requests from the reset state reach Finished after finitely
\* many requests (within RequestBound), and no request made while the index
\* is within the sequence leaves the index and the position of every frame
\* as they were.
C35_SteppingTerminates ==
  [][last_op' = "step_run" =>
       /\ (exec_state'.index <= LastIndex => Requests(session') <= RequestBound(steps))
       /\ StartedFrom(exec_state).index <= LastIndex =>
            \/ exec_state'.index # StartedFrom(exec_state).index
            \/ FramePositions(exec_state') # FramePositions(StartedFrom(exec_state))]_vars

\* ---------------------------------------------------------------------- C36
\* C36: once the execution state exists, 0 <= index <= len(steps) in every
\* state that step requests and resets reach, also after a jump out of a
\* block that has no `end`.
C36_IndexWithinSequence ==
  exec_state # None => (0 <= exec_state.index /\ exec_state.index <= Len(steps))

\* a request at a header without an `end` jumped over its block (a false
\* condition or nothing to iterate) and left the index just beyond the last
\* step
C36_Witness ==
  /\ last_op = "step_run"
  /\ exec_state.index = Len(steps)
  /\ \E k \in 1..Len(sink) :
       /\ sink[k].cb = "output" /\ sink[k].tag \in {"step_if_false", "step_empty_for"}
       /\ FindMatchingEnd(steps, sink[k].at) = -1

\* ---------------------------------------------------------------------- C37
\* C37: in every state of a stepping session each frame of loop_stack has
\* an iterator with elements and a position within it, no two frames start
\* at the same header, and the range start..end of each frame lies inside
\* the range of the frame pushed before it.
C37_FramesAreNested ==
  exec_state # None =>
    LET ls == exec_state.loop_stack IN
    /\ \A f \in 1..Len(ls) : ls[f].iterator # <<>> /\ 0 <= ls[f].pos /\ ls[f].pos < Len(ls[f].iterator)
    /\ \A f, g \in 1..Len(ls) : f # g => ls[f].start # ls[g].start
    /\ \A f \in 2..Len(ls) : ls[f - 1].start <= ls[f].start /\ ls[f].end <= ls[f - 1].end

\* ---------------------------------------------------------------------- C38
\* C38: run_all leaves index, vars and loop_stack of the execution state as
\* they were, and the step request after it starts at the step the cursor
\* was at before the run (its progress notice is that of this step).
C38_RunAllKeepsCursor ==
  [][/\ last_op' = "run_all" => exec_state' = exec_state
     /\ (last_op = "run_all" /\ last_op' = "step_run" /\ StartedFrom(exec_state).index <= LastIndex)
          => /\ sink'[Len(sink')].tag \in StepNotices
             /\ sink'[Len(sink')].at = StartedFrom(exec_state).index]_vars

\* a run in the middle of a stepping session that stands inside a loop, and
\* the step request after it
C38_Witness ==
  /\ last_op = "step_run"
  /\ ran
  /\ exec_state.loop_stack # <<>>
  /\ exec_state.index > 1
  /\ Calls(sink) # <<>>

\* ---------------------------------------------------------------------- C39
\* C39: after a run_all on outputs cleared by construction or a reset, the
\* next run_all, with no reset in between, reports the same status callbacks
\* and leaves the same outputs on every step as the first one.
C39_SecondRunEqualsFirst ==
  (last_op = "run_all" /\ outputs = RunAllResult(steps, ClearedOutputs(steps)).outputs)
    => \E second \in {RunAllResult(steps, outputs)} :
         /\ Statuses(second.log) = Statuses(sink)
         /\ second.outputs = outputs

\* ---------------------------------------------------------------------- C40
\* the positions of the status callbacks and of the invocations in a log
StatusAt(log) == {k \in 1..Len(log) : log[k].cb = "status"}
CallAt(log) == {k \in 1..Len(log) : log[k].cb = "action" /\ log[k].tag = "call"}

\* the status callbacks that follow the invocation at q before the next one
StatusesOf(log, q) ==
  {p \in StatusAt(log) : q < p /\ \A k \in CallAt(log) : ~(q < k /\ k < p)}

\* C40: every invocation of a callable is followed by exactly one status
\* callback, which carries the index of the invoked step in the whole
\* sequence; no status callback names a control step or a step whose
\* function is unknown, and a run makes as many status callbacks as
\* invocations.
C40_OneStatusPerInvocation ==
  last_op \in {"run_all", "step_run"} =>
    /\ \A q \in CallAt(sink) :
         /\ Cardinality(StatusesOf(sink, q)) = 1
         /\ \A p \in StatusesOf(sink, q) : sink[p].idx = sink[q].at
    /\ \A p \in StatusAt(sink) :
         /\ sink[p].idx \in 0..(Len(steps) - 1)
         /\ steps[sink[p].idx + 1].type = "function"
         /\ sink[p].idx \notin UnknownSteps(steps)
         /\ \E q \in CallAt(sink) : p \in StatusesOf(sink, q)
    /\ Cardinality(StatusAt(sink)) = Cardinality(CallAt(sink))

\* a run that skipped an unknown function and invoked a step of a loop body,
\* not the first step of the sequence, in both passes
C40_Witness ==
  /\ last_op = "run_all"
  /\ \E k \in 1..Len(sink) : sink[k].tag = "skip_unknown"
  /\ \E k \in 1..Len(sink) : sink[k].cb = "action" /\ sink[k].tag = "for"
  /\ \E p, q \in StatusAt(sink) :
       /\ p < q
       /\ sink[p].idx = sink[q].idx
       /\ sink[p].idx > 0
====
